---------------------------- MODULE Spec2Model ----------------------------
(***************************************************************************)
(* A state-machine model of the multimodal live chat front end.            *)
(*                                                                         *)
(* The repository holds several page variants that implement the same      *)
(* concerns.  The variable `variant` says which one a behaviour is a run   *)
(* of; it is fixed by Init and never changes:                              *)
(*   "app"    GeminiLiveVoiceApp          src/src/app/page.tsx             *)
(*   "home"   HomePage                    src/unnamed/part_000             *)
(*   "avatar" AvatarDisplay playback      src/.../AvatarDisplay.tsx        *)
(*   "prov"   GeminiProvider              src/.../GeminiContext.tsx        *)
(* The capture processor (the AudioWorklet) has its own specification,     *)
(* SpecWorklet.                                                            *)
(*                                                                         *)
(* One action is one browser task: a callback runs to completion, an       *)
(* `await` of an external promise ends the action and its continuation is  *)
(* a later action.  The vendor session is modelled by what the code can    *)
(* observe of it: live.connect resolves (onopen, then the handle) or       *)
(* rejects; an open session delivers setupComplete once, then audio parts; *)
(* it may raise onerror and it raises onclose once when it ends.           *)
(***************************************************************************)
EXTENDS Integers, Sequences, FiniteSets, TLC

\* ------------------------------------------------------------- bounds
\* Sessions that are being created or are open at the same time.
MaxSess == 2
\* Audio chunks delivered by the service in one run.
MaxChunks == 3
\* Images uploaded in one run.
MaxImg == 2
\* getUserMedia requests outstanding at the same time.
MaxPend == 1
\* Microphone streams with live tracks at the same time.
MaxMics == 2
\* process() calls of the capture processor in one run.
MaxCalls == 140

\* -------------------------------------------------- program constants
TARGET_SAMPLE_RATE == 16000
WORKLET_BUFFER_SIZE == 4096
\* One render quantum of the Web Audio API: the length of process()'s input.
RenderQuantum == 128

VARIABLES
  variant,         \* which page variant this run is of
  budget,          \* the inputs this run may draw: [sess, chunks, imgs]
  \* --- the remote sessions and the handle the page holds
  sess,            \* slot -> "none" | "pending" | "open" | "ready" | "errored" | "closing" | "closed" | "failed"
  caller,          \* slot -> who awaits the pending live.connect: "none" | "rec" | "text" | "loop"
  cap,             \* slot -> image captured by the closure that awaits it (HomePage);
                   \* cap[0]: by the closure that awaits initializeAudio
  session,         \* session / session.current / sessionRef.current: 0 is null
  \* --- flags
  isRecording, isSetupComplete, isConnected, connectingRef, paused, genAI,
  \* --- GeminiProvider's reconnect loop
  loopAwait,       \* slot whose connect() the current watch loop awaits, 0 when it sleeps
  loopSetup,       \* isSetupComplete as captured by the closure the loop calls
  \* --- playback
  audioContext,    \* "none" | "loading" | "ready"
  initWaiter,      \* who awaits the creating initializeAudioSystem: "none" | "toggle" | "play"
  pendingPlay,     \* chunk that a playNext that awaits will start (0: none); the App
                   \* has shifted it already, HomePage has it at the head of the queue
  audioQueue, isPlayingAudio,
  nextChunk,       \* id of the next chunk the service delivers
  started,         \* history: chunk ids in the order src.start() was called
  playing,         \* chunk ids started whose ended event has not fired
  \* --- microphone
  micPending,      \* outstanding getUserMedia calls (each: the image its closure captured)
  micStream,       \* TRUE when micStream/micSourceNode/audioWorkletNode are held
  liveMics,        \* acquired streams whose tracks were never stopped
  \* --- image
  currentImage,    \* currentImageBase64 / imageBase64: 0 is null
  previewShown,
  reading,         \* images whose FileReader has not fired onload yet
  nextImg,
  imageTimer,      \* the periodic interval is armed
  timerImg,        \* HomePage: imageBase64 as captured by the interval's closure
  imgSent,         \* image carried by the sendRealtimeInput of the last step (0: none)
  textSent,        \* the turns passed to sendClientContent in the last step
  status,          \* the status line shown to the user
  \* --- what the user has entered
  imgType,         \* image -> the type of the file it was read from ("none": not chosen)
  chatFile,        \* ChatInput: the attached file (0: null)
  chatJob,         \* ChatInput: where the handleSend in flight stands
  textInput,       \* GeminiLiveVoiceApp, ChatInput: content of the text input
  \* --- GeminiProvider's audio handlers
  audioHandlers,   \* audioHandlersRef.current: the handlers, in insertion order
  received,        \* handler -> the audio parts it was called with, in call order
  orphans,         \* history: slots whose live.connect was pending when disconnect() ran
  staleReads,      \* history: images whose FileReader was loading when removeImage() ran
  \* --- capture processor
  wKind, wRate, wIndex, wIn, wOut, wCalls, wDropped,
  wcMode, wcReady, wcStream, wcLive, wcAttached, wcWaiting, wcPending, wcPlay, wcTimer,
  wcTick, wcSent,
  \* --- microphone frames
  portQueue,       \* frames the capture processor posted, not yet handled
  nextFrame,       \* id of the next frame to post
  audioSent,       \* frames passed to sendRealtimeInput, in call order
  \* --- ElectricityDashboard
  feeders,         \* the feeders state: voltage in 0.01 kV, current in A, load in 0.5 %
  currentTime,     \* 0 is null; successive Dates alternate between 1 and 2
  dashTicks        \* firings of the update interval so far

sessVars == <<sess, caller, cap, session>>
flagVars == <<isRecording, isSetupComplete, isConnected, connectingRef, paused, genAI>>
loopVars == <<loopAwait, loopSetup>>
playVars == <<audioContext, initWaiter, pendingPlay, audioQueue, isPlayingAudio,
              nextChunk, started, playing>>
micVars  == <<micPending, micStream, liveMics>>
imgVars  == <<currentImage, previewShown, reading, nextImg, imageTimer, timerImg>>
wVars    == <<wKind, wRate, wIndex, wIn, wOut, wCalls, wDropped>>
wcVars   == <<wcMode, wcReady, wcStream, wcLive, wcAttached, wcWaiting, wcPending, wcPlay,
             wcTimer, wcTick, wcSent>>
frameVars == <<portQueue, nextFrame, audioSent>>
inputVars == <<imgType, chatFile, chatJob, textInput>>
hVars == <<audioHandlers, received, orphans, staleReads>>
dashVars == <<feeders, currentTime, dashTicks>>
\* What only GeminiProvider writes, and what only the capture processor writes.
provOnly == <<isConnected, connectingRef, paused, genAI, loopVars>>
imgState == <<currentImage, previewShown, reading, nextImg>>
queueVars == <<pendingPlay, audioQueue, isPlayingAudio, started, playing>>
vars == <<variant, budget, sessVars, flagVars, loopVars, playVars, micVars, imgVars, imgSent,
         textSent, status, wVars, wcVars, frameVars, inputVars, hVars, dashVars>>

\* One slot more than live sessions: the page may still hold the handle of a
\* session that has ended.
Slots == 1..(MaxSess + 1)
Variants == {"app", "home", "avatar", "prov"}
\* The variants in which GeminiProvider is mounted: alone, or with
\* WebcamScreenShare or ChatInput as a consumer of its context.
ProvHosts == {"prov", "webcam", "chat"}

\* A run either has many concurrent sessions, or many audio parts, or many
\* uploads; in the last two a new session starts once the previous has ended.
Budgets(v) ==
  CASE v = "avatar" -> {[sess |-> 0, chunks |-> MaxChunks, imgs |-> 0]}
    [] v = "prov" -> {[sess |-> MaxSess, chunks |-> 0, imgs |-> 0]}
    [] v = "home" -> {[sess |-> MaxSess, chunks |-> 0, imgs |-> 0],
                      [sess |-> 1, chunks |-> MaxChunks, imgs |-> 0],
                      [sess |-> 1, chunks |-> 0, imgs |-> MaxImg]}
    [] OTHER -> {[sess |-> MaxSess, chunks |-> 0, imgs |-> 0],
                 [sess |-> 1, chunks |-> MaxChunks, imgs |-> 0],
                 [sess |-> 1, chunks |-> 1, imgs |-> MaxImg]}

\* ------------------------------------------------------------ helpers
\* The status line mounted: the constructor of GeminiLiveVoiceApp and the
\* useState of HomePage set one; the other components have none.
InitialStatus ==
  CASE variant = "app" /\ genAI -> "Click \"Talk\" or Upload an Image"
    [] variant = "app" /\ ~genAI -> "Ready"
    [] variant = "home" -> "Ready to talk or Upload Image"
    [] OTHER -> ""

\* The functions that consumers pass to registerAudioHandler.
Handlers == {"h1", "h2"}

\* The types handleImageUpload and onFileChange accept.
AllowedTypes == {"image/jpeg", "image/png", "image/webp"}
\* The types of the files the user picks from.
FileTypes == {"image/png", "image/gif"}

\* What the user types: a text is a sequence of characters.
Texts == {<<>>, <<" ">>, <<" ", "h">>}
\* A plausible slip: handleTextSend tests the text as typed.
TrimNothing(s) == s

\* String.prototype.trim(): the text without its leading and trailing blanks.
RECURSIVE Trim(_)
Trim(s) ==
  IF s # <<>> /\ Head(s) = " " THEN Trim(Tail(s))
  ELSE IF s # <<>> /\ s[Len(s)] = " " THEN Trim(SubSeq(s, 1, Len(s) - 1))
  ELSE s
\* Every non-blank text of Texts trims to the same message: it is the text that
\* the closure of a handleTextSend holds while it awaits.
Message == CHOOSE m \in {Trim(x) : x \in Texts} : m # <<>>

\* No handleSend of ChatInput is in flight.
NoJob == [step |-> "idle", file |-> 0, text |-> <<>>]

FreeSlots(s) == {i \in Slots : s[i] = "none"}
NewSlot(s) == CHOOSE i \in FreeSlots(s) : \A j \in FreeSlots(s) : i <= j
\* The run's budget allows one more live.connect.
CanConnect(s) ==
  Cardinality({i \in Slots : s[i] \notin {"none", "closed", "failed"}}) < budget.sess

\* session.close(): an open socket starts closing; its onclose fires later.
CloseOf(s, ref) ==
  IF ref # 0 /\ s[ref] \in {"open", "ready"} THEN [s EXCEPT ![ref] = "closing"] ELSE s

\* A handle that has ended and that nothing refers to is gone.
Gc(s, ref) ==
  [i \in Slots |-> IF s[i] \in {"closed", "failed"} /\ i # ref THEN "none" ELSE s[i]]

\* A session that live.connect is creating or has returned, and that neither
\* side has closed.
Active(i) == sess[i] \in {"pending", "open", "ready"}


\* ===================================================== ElectricityDashboard
\* The clamps of the update effect, in the units of the model.
VoltMin == 1050
VoltMax == 1150
LoadMax == 200
MaxTicks == 1

\* The initial feeders state.
DashFeeders ==
  << [id |-> "OSL-11KV", name |-> "Osolo 11kV Feeder", band |-> "Band A", status |-> "online",
      voltage |-> 1100, current |-> 265, load |-> 144, availability |-> 988,
      lastOutage |-> "4 days ago", totalOutages |-> 3, customers |-> 1650,
      location |-> "Osolo Estate, Isolo"],
     [id |-> "ASW-11KV", name |-> "Aswani 11kV Feeder", band |-> "Band A", status |-> "online",
      voltage |-> 1090, current |-> 240, load |-> 136, availability |-> 985,
      lastOutage |-> "5 days ago", totalOutages |-> 4, customers |-> 1820,
      location |-> "Aswani Market Area, Isolo"],
     [id |-> "ADM-11KV", name |-> "Ademulegun 11kV Feeder", band |-> "Band B", status |-> "online",
      voltage |-> 1110, current |-> 180, load |-> 110, availability |-> 962,
      lastOutage |-> "2 days ago", totalOutages |-> 8, customers |-> 1100,
      location |-> "Ademulegun Street, Isolo"],
     [id |-> "IBX-11KV", name |-> "Ibalex 11kV Feeder", band |-> "Band C", status |-> "alarm",
      voltage |-> 1030, current |-> 420, load |-> 192, availability |-> 948,
      lastOutage |-> "1 hour ago", totalOutages |-> 12, customers |-> 950,
      location |-> "Ibalex Industrial Area, Isolo"],
     [id |-> "IRE-11KV", name |-> "Ire-Akari 11kV Feeder", band |-> "Band C", status |-> "maintenance",
      voltage |-> 0, current |-> 0, load |-> 0, availability |-> 935,
      lastOutage |-> "Now (Scheduled)", totalOutages |-> 15, customers |-> 720,
      location |-> "Ire-Akari Estate, Isolo"] >>

\* The feeders state after enough updates have driven the metrics of the
\* online feeders down ("low") or up ("high"); "source" is the initial state.
DashAfter(kind) ==
  [k \in 1..Len(DashFeeders) |->
     IF DashFeeders[k].status # "online" \/ kind = "source"
     THEN DashFeeders[k]
     ELSE IF kind = "low"
     THEN [DashFeeders[k] EXCEPT !.voltage = VoltMin, !.current = 0, !.load = 0]
     ELSE [DashFeeders[k] EXCEPT !.voltage = VoltMax, !.load = LoadMax]]

DashStarts == {DashAfter(kind) : kind \in {"source", "low", "high"}}

Base ==
  /\ sess = [i \in Slots |-> "none"]
  /\ caller = [i \in Slots |-> "none"]
  /\ cap = [i \in {0} \cup Slots |-> 0]
  /\ session = 0
  /\ isRecording = FALSE /\ isSetupComplete = FALSE /\ isConnected = FALSE
  /\ connectingRef = FALSE /\ paused = FALSE
  /\ loopAwait = 0 /\ loopSetup = FALSE
  /\ audioContext = "none" /\ initWaiter = "none" /\ pendingPlay = 0
  /\ audioQueue = <<>> /\ isPlayingAudio = FALSE
  /\ nextChunk = 1 /\ started = <<>> /\ playing = {}
  /\ micPending = <<>> /\ micStream = FALSE /\ liveMics = 0
  /\ currentImage = 0 /\ previewShown = FALSE /\ reading = {} /\ nextImg = 1
  /\ imageTimer = FALSE /\ timerImg = 0 /\ imgSent = 0
  /\ textSent = <<>> /\ textInput = <<>>
  /\ imgType = [m \in 1..MaxImg |-> "none"]
  /\ chatFile = 0 /\ chatJob = NoJob
  /\ audioHandlers = <<>> /\ received = [h \in Handlers |-> <<>>] /\ orphans = {}
  /\ staleReads = {}
  /\ feeders \in (IF variant = "dash" THEN DashStarts ELSE {DashFeeders})
  /\ currentTime = 0 /\ dashTicks = 0
  /\ wcMode = "none" /\ wcReady = FALSE /\ wcStream = FALSE /\ wcLive = 0
  /\ wcAttached = FALSE /\ wcWaiting = FALSE /\ wcPending = <<>> /\ wcPlay = <<>>
  /\ wcTimer = "none" /\ wcTick = 0 /\ wcSent = 0
  /\ status = InitialStatus
  /\ portQueue = <<>> /\ nextFrame = 1 /\ audioSent = <<>>

WorkletIdle ==
  /\ wKind = "none" /\ wRate = TARGET_SAMPLE_RATE /\ wIndex = 0
  /\ wIn = 0 /\ wOut = 0 /\ wCalls = 0 /\ wDropped = 0

Init ==
  /\ variant \in Variants
  /\ budget \in Budgets(variant)
  /\ genAI \in (IF variant \in {"prov", "app"} THEN BOOLEAN ELSE {TRUE})
  /\ Base
  /\ WorkletIdle

\* ====================================================== GeminiLiveVoiceApp
\* The page constructs the app, and so installs its handlers, only when the
\* API key is set: genAI is false when it is not.
\* A plausible slip: playNext takes the newest chunk (pop) instead of the oldest
\* (shift).
AppPlayNextNewest(q, p) ==
  IF q = <<>>
  THEN /\ isPlayingAudio' = FALSE
       /\ audioQueue' = q
       /\ playing' = p
       /\ status' = (IF isRecording THEN "Listening..." ELSE "Ready to talk or Upload Image")
       /\ UNCHANGED <<started, audioContext, initWaiter, pendingPlay>>
  ELSE /\ isPlayingAudio' = TRUE
       /\ audioQueue' = SubSeq(q, 1, Len(q) - 1)
       /\ IF audioContext = "none"
          THEN /\ audioContext' = "loading"
               /\ initWaiter' = "play"
               /\ pendingPlay' = q[Len(q)]
               /\ playing' = p
               /\ UNCHANGED <<started, status>>
          ELSE /\ started' = Append(started, q[Len(q)])
               /\ playing' = p \cup {q[Len(q)]}
               /\ status' = "Playing Gemini response..."
               /\ UNCHANGED <<audioContext, initWaiter, pendingPlay>>

\* A plausible slip: playNext leaves the playing flag set when it finds the
\* queue empty.
AppPlayNextKeepsFlag(q, p) ==
  IF q = <<>>
  THEN /\ isPlayingAudio' = isPlayingAudio
       /\ audioQueue' = q
       /\ playing' = p
       /\ status' = (IF isRecording THEN "Listening..." ELSE "Ready to talk or Upload Image")
       /\ UNCHANGED <<started, audioContext, initWaiter, pendingPlay>>
  ELSE /\ isPlayingAudio' = TRUE
       /\ audioQueue' = Tail(q)
       /\ IF audioContext = "none"
          THEN /\ audioContext' = "loading"
               /\ initWaiter' = "play"
               /\ pendingPlay' = Head(q)
               /\ playing' = p
               /\ UNCHANGED <<started, status>>
          ELSE /\ started' = Append(started, Head(q))
               /\ playing' = p \cup {Head(q)}
               /\ status' = "Playing Gemini response..."
               /\ UNCHANGED <<audioContext, initWaiter, pendingPlay>>

\* playNext(): q is the queue and p the set of playing chunks as the caller
\* leaves them.  The await of initializeAudioSystem ends the task when no
\* AudioContext exists yet; the chunk is already shifted by then.
AppPlayNext(q, p) ==
  IF q = <<>>
  THEN /\ isPlayingAudio' = FALSE
       /\ audioQueue' = q
       /\ playing' = p
       /\ status' = (IF isRecording THEN "Listening..." ELSE "Ready to talk or Upload Image")
       /\ UNCHANGED <<started, audioContext, initWaiter, pendingPlay>>
  ELSE /\ isPlayingAudio' = TRUE
       /\ audioQueue' = Tail(q)
       /\ IF audioContext = "none"
          THEN /\ audioContext' = "loading"
               /\ initWaiter' = "play"
               /\ pendingPlay' = Head(q)
               /\ playing' = p
               /\ UNCHANGED <<started, status>>
          ELSE /\ started' = Append(started, Head(q))
               /\ playing' = p \cup {Head(q)}
               /\ status' = "Playing Gemini response..."
               /\ UNCHANGED <<audioContext, initWaiter, pendingPlay>>

\* A plausible slip: enqueueAudio without its isPlayingAudio guard.
AppEnqueueAudioUnguarded(c) ==
  AppPlayNext(Append(audioQueue, c), playing)

\* enqueueAudio(buf)
AppEnqueueAudio(c) ==
  IF ~isPlayingAudio
  THEN AppPlayNext(Append(audioQueue, c), playing)
  ELSE /\ audioQueue' = Append(audioQueue, c)
       /\ UNCHANGED <<isPlayingAudio, started, playing, audioContext, initWaiter,
                      pendingPlay, status>>

\* cleanup(): cleanupAudio stops the tracks of the stream it holds.
AppCleanup ==
  /\ isRecording' = FALSE
  /\ isSetupComplete' = FALSE
  /\ imageTimer' = FALSE
  /\ micStream' = FALSE
  /\ liveMics' = liveMics - (IF micStream THEN 1 ELSE 0)
  /\ audioQueue' = <<>>
  /\ isPlayingAudio' = FALSE

\* connectToGemini() up to its await: close the held session, call live.connect.
AppConnectToGemini(s0, who) ==
  LET s1 == CloseOf(s0, session) IN
  /\ CanConnect(s1)
  /\ sess' = [s1 EXCEPT ![NewSlot(s1)] = "pending"]
  /\ caller' = [caller EXCEPT ![NewSlot(s1)] = who]

\* startRecording() up to its first external await; s0 and setup0 are the
\* session table and isSetupComplete as the caller leaves them.
AppStartRecording(s0, setup0) ==
  IF session # 0 /\ setup0
  THEN /\ Len(micPending) < MaxPend
       /\ micPending' = Append(micPending, 0)
       /\ sess' = s0
       /\ caller' = caller
  ELSE /\ AppConnectToGemini(s0, "rec")
       /\ micPending' = micPending

\* stopRecording()
AppStopRecording ==
  /\ isRecording' = FALSE
  /\ imageTimer' = FALSE
  /\ micStream' = FALSE
  /\ liveMics' = liveMics - (IF micStream THEN 1 ELSE 0)
  /\ sess' = CloseOf(sess, session)
  /\ UNCHANGED <<caller, micPending>>

\* toggleRecording() after its await of initializeAudioSystem.
AppToggleCont ==
  /\ IF isRecording
     THEN AppStopRecording
     ELSE /\ isRecording' = TRUE
          /\ AppStartRecording(sess, isSetupComplete)
          /\ UNCHANGED <<imageTimer, micStream, liveMics>>
  /\ textSent' = <<>>
  /\ imgSent' = 0
  /\ status' = (IF isRecording THEN "Call ended."
               ELSE IF session # 0 /\ isSetupComplete THEN status
               ELSE "Connecting to Gemini...")
  /\ UNCHANGED <<variant, budget, dashVars, hVars, inputVars, cap, session, isSetupComplete, isConnected, connectingRef,
                 paused, genAI, loopVars, pendingPlay, audioQueue, isPlayingAudio,
                 nextChunk, started, playing, currentImage, previewShown, reading,
                 nextImg, timerImg, wVars, frameVars, wcVars>>

\* Click on the record button.
AppToggleRecording ==
  /\ variant = "app" /\ genAI
  /\ IF audioContext = "none"
     THEN /\ audioContext' = "loading"
          /\ initWaiter' = "toggle"
          /\ textSent' = <<>>
          /\ imgSent' = 0
          /\ status' = status
          /\ UNCHANGED <<variant, budget, dashVars, hVars, inputVars, sessVars, flagVars, loopVars, pendingPlay, audioQueue,
                         isPlayingAudio, nextChunk, started, playing, micVars, imgVars,
                         wVars, frameVars, wcVars>>
     ELSE /\ AppToggleCont
          /\ UNCHANGED <<audioContext, initWaiter>>

\* The creating initializeAudioSystem call settles (resume, addModule).
AppInitAudioDone ==
  /\ variant = "app" /\ genAI
  /\ audioContext = "loading"
  /\ audioContext' = "ready"
  /\ initWaiter' = "none"
  /\ IF initWaiter = "toggle"
     THEN AppToggleCont
     ELSE /\ started' = Append(started, pendingPlay)
          /\ playing' = playing \cup {pendingPlay}
          /\ pendingPlay' = 0
          /\ textSent' = <<>>
          /\ imgSent' = 0
          /\ status' = "Playing Gemini response..."
          /\ UNCHANGED <<variant, budget, dashVars, hVars, inputVars, sessVars, flagVars, loopVars, audioQueue,
                         isPlayingAudio, nextChunk, micVars, imgVars, wVars, frameVars, wcVars>>

\* handleTextSend() with t in the text input: nothing happens for a blank
\* text; with a session that is set up the text is passed to sendClientContent,
\* which throws or not on a socket that is no longer open; otherwise
\* connectToGemini() is awaited.
AppHandleTextSend(t) ==
  /\ variant = "app" /\ genAI
  /\ IF Trim(t) = <<>>
     THEN /\ textInput' = t
          /\ textSent' = <<>>
          /\ UNCHANGED <<sess, caller, status>>
     ELSE IF session # 0 /\ isSetupComplete
     THEN /\ UNCHANGED <<sess, caller>>
          /\ textSent' = <<Trim(t)>>
          /\ status' \in (IF sess[session] \in {"open", "ready"}
                         THEN {"Message sent."}
                         ELSE {"Message sent.", "Failed to send text."})
          /\ textInput' = (IF status' = "Message sent." THEN <<>> ELSE t)
     ELSE /\ AppConnectToGemini(sess, "text")
          /\ status' = "Connecting to Gemini..."
          /\ textSent' = <<>>
          /\ textInput' = t
  /\ imgSent' = 0
  /\ UNCHANGED <<variant, budget, dashVars, hVars, imgType, chatFile, chatJob, cap, session, flagVars, loopVars,
                 playVars, micVars, imgVars, wVars, frameVars, wcVars>>

\* live.connect of slot i resolves: this.session = handle, then the caller goes on.
AppConnectResolve(i) ==
  /\ variant = "app" /\ genAI
  /\ sess[i] = "pending"
  /\ session' = i
  /\ sess' = Gc([sess EXCEPT ![i] = "open"], i)
  /\ caller' = [caller EXCEPT ![i] = "none"]
  /\ IF caller[i] = "rec" /\ isSetupComplete
     THEN /\ Len(micPending) < MaxPend
          /\ micPending' = Append(micPending, 0)
     ELSE micPending' = micPending
  /\ IF caller[i] = "text" /\ isSetupComplete
     THEN /\ textSent' = <<Message>>
          /\ textInput' = <<>>
     ELSE /\ textSent' = <<>>
          /\ textInput' = textInput
  /\ imgSent' = 0
  /\ status' = (IF caller[i] = "text"
               THEN (IF isSetupComplete THEN "Message sent." ELSE "Not connected yet.")
               ELSE IF isSetupComplete THEN "Connected to Gemini! Finalizing setup..."
               ELSE "Waiting for connection setup...")
  /\ UNCHANGED <<variant, budget, dashVars, hVars, imgType, chatFile, chatJob, cap, flagVars, loopVars, playVars,
                 micStream, liveMics, imgVars, wVars, frameVars, wcVars>>

\* live.connect of slot i rejects: the catch branch runs cleanup().
AppConnectReject(i) ==
  /\ variant = "app" /\ genAI
  /\ sess[i] = "pending"
  /\ sess' = Gc([sess EXCEPT ![i] = "failed"], session)
  /\ caller' = [caller EXCEPT ![i] = "none"]
  /\ AppCleanup
  /\ textSent' = <<>>
  /\ imgSent' = 0
  /\ status' = (IF caller[i] = "text" THEN "Not connected yet."
               ELSE "Waiting for connection setup...")
  /\ UNCHANGED <<variant, budget, dashVars, hVars, inputVars, cap, session, isConnected, connectingRef, paused, genAI,
                 loopVars, audioContext, initWaiter, pendingPlay, nextChunk, started,
                 playing, micPending, currentImage, previewShown, reading, nextImg,
                 timerImg, wVars, frameVars, wcVars>>

\* A plausible slip: setupComplete only sets the flag.
AppOnSetupCompleteFlagOnly(i) ==
  /\ variant = "app" /\ genAI
  /\ sess[i] = "open"
  /\ isSetupComplete' = TRUE
  /\ sess' = [sess EXCEPT ![i] = "ready"]
  /\ textSent' = <<>>
  /\ imgSent' = 0
  /\ status' = "Ready to talk or Upload Image"
  /\ UNCHANGED <<variant, budget, dashVars, hVars, inputVars, caller, cap, session, isRecording, isConnected,
                 connectingRef, paused, genAI, loopVars, playVars, micVars, imgVars, wVars,
                 frameVars, wcVars>>

\* onmessage with setupComplete from the session of slot i.
AppOnSetupComplete(i) ==
  /\ variant = "app" /\ genAI
  /\ sess[i] = "open"
  /\ isSetupComplete' = TRUE
  /\ IF isRecording
     THEN AppStartRecording([sess EXCEPT ![i] = "ready"], TRUE)
     ELSE /\ sess' = [sess EXCEPT ![i] = "ready"]
          /\ UNCHANGED <<caller, micPending>>
  /\ textSent' = <<>>
  /\ imgSent' = 0
  /\ status' = (IF isRecording /\ session = 0 THEN "Connecting to Gemini..."
               ELSE "Ready to talk or Upload Image")
  /\ UNCHANGED <<variant, budget, dashVars, hVars, inputVars, cap, session, isRecording, isConnected, connectingRef, paused,
                 genAI, loopVars, playVars, micStream, liveMics, imgVars, wVars, frameVars, wcVars>>

\* onmessage with one audio part from the session of slot i.
AppOnAudio(i) ==
  /\ variant = "app" /\ genAI
  /\ sess[i] = "ready"
  /\ nextChunk <= budget.chunks
  /\ nextChunk' = nextChunk + 1
  /\ AppEnqueueAudio(nextChunk)
  /\ textSent' = <<>>
  /\ imgSent' = 0
  /\ UNCHANGED <<variant, budget, dashVars, hVars, inputVars, sessVars, flagVars, loopVars, micVars, imgVars, wVars, frameVars, wcVars>>

\* src.onended of chunk c.
AppOnEnded(c) ==
  /\ variant = "app" /\ genAI
  /\ c \in playing
  /\ AppPlayNext(audioQueue, playing \ {c})
  /\ textSent' = <<>>
  /\ imgSent' = 0
  /\ UNCHANGED <<variant, budget, dashVars, hVars, inputVars, sessVars, flagVars, loopVars, nextChunk, micVars, imgVars,
                 wVars, frameVars, wcVars>>

\* onerror of the session of slot i.
AppOnError(i) ==
  /\ variant = "app" /\ genAI
  /\ sess[i] \in {"open", "ready"}
  /\ sess' = [sess EXCEPT ![i] = "errored"]
  /\ AppCleanup
  /\ textSent' = <<>>
  /\ imgSent' = 0
  /\ status' = "WebSocket Error"
  /\ UNCHANGED <<variant, budget, dashVars, hVars, inputVars, caller, cap, session, isConnected, connectingRef, paused,
                 genAI, loopVars, audioContext, initWaiter, pendingPlay, nextChunk,
                 started, playing, micPending, currentImage, previewShown, reading,
                 nextImg, timerImg, wVars, frameVars, wcVars>>

\* onclose of the session of slot i.
AppOnClose(i) ==
  /\ variant = "app" /\ genAI
  /\ sess[i] \in {"open", "ready", "errored", "closing"}
  /\ sess' = Gc([sess EXCEPT ![i] = "closed"], session)
  /\ AppCleanup
  /\ textSent' = <<>>
  /\ imgSent' = 0
  /\ status' = "Disconnected."
  /\ UNCHANGED <<variant, budget, dashVars, hVars, inputVars, caller, cap, session, isConnected, connectingRef, paused,
                 genAI, loopVars, audioContext, initWaiter, pendingPlay, nextChunk,
                 started, playing, micPending, currentImage, previewShown, reading,
                 nextImg, timerImg, wVars, frameVars, wcVars>>

\* getUserMedia resolves in startRecording: the capture chain is attached, then
\* startPeriodicImageSending() runs.  While addModule is still loading the
\* processor, new AudioWorkletNode throws after the stream is stored, and the
\* catch branch runs.
AppMicResolve ==
  /\ variant = "app" /\ genAI
  /\ micPending # <<>>
  /\ liveMics < MaxMics
  /\ micPending' = Tail(micPending)
  /\ micStream' = TRUE
  /\ liveMics' = liveMics + 1
  /\ IF audioContext = "loading"
     THEN /\ isRecording' = FALSE
          /\ imageTimer' = imageTimer
          /\ textSent' = <<>>
          /\ imgSent' = 0
     ELSE /\ isRecording' = isRecording
          /\ IF session # 0 /\ isSetupComplete /\ isRecording
             THEN /\ imageTimer' = TRUE
                  /\ textSent' = <<>>
                  /\ imgSent' = currentImage
             ELSE /\ imageTimer' = FALSE
                  /\ textSent' = <<>>
                  /\ imgSent' = 0
  /\ status' = (IF audioContext = "loading" THEN "Mic error" ELSE "Listening...")
  /\ UNCHANGED <<variant, budget, dashVars, hVars, inputVars, sessVars, isSetupComplete, provOnly, playVars, imgState,
                 timerImg, wVars, frameVars, wcVars>>

\* getUserMedia rejects in startRecording.
AppMicReject ==
  /\ variant = "app" /\ genAI
  /\ micPending # <<>>
  /\ micPending' = Tail(micPending)
  /\ isRecording' = FALSE
  /\ textSent' = <<>>
  /\ imgSent' = 0
  /\ status' = "Mic error"
  /\ UNCHANGED <<variant, budget, dashVars, hVars, inputVars, sessVars, isSetupComplete, isConnected, connectingRef, paused,
                 genAI, loopVars, playVars, micStream, liveMics, imgVars, wVars, frameVars, wcVars>>

\* handleImageUpload of a file of type ty: a FileReader starts loading it, or
\* the type is refused and removeImage() runs.
AppUploadStart(ty) ==
  /\ variant = "app" /\ genAI
  /\ IF ty \in AllowedTypes
     THEN /\ nextImg <= budget.imgs
          /\ reading' = reading \cup {nextImg}
          /\ nextImg' = nextImg + 1
          /\ imgType' = [imgType EXCEPT ![nextImg] = ty]
          /\ status' = status
          /\ UNCHANGED <<currentImage, previewShown>>
     ELSE /\ currentImage' = 0
          /\ previewShown' = FALSE
          /\ status' = "Image removed. Click \"Talk\" or Upload an Image"
          /\ UNCHANGED <<reading, nextImg, imgType>>
  /\ textSent' = <<>>
  /\ imgSent' = 0
  /\ staleReads' = (IF ty \in AllowedTypes THEN staleReads ELSE reading)
  /\ UNCHANGED <<variant, budget, dashVars, audioHandlers, received, orphans, chatFile, chatJob, textInput, sessVars, flagVars, loopVars,
                 playVars, micVars, imageTimer, timerImg, wVars, frameVars, wcVars>>

\* reader.onload of image m.
AppReaderLoad(m) ==
  /\ variant = "app" /\ genAI
  /\ m \in reading
  /\ reading' = reading \ {m}
  /\ currentImage' = m
  /\ previewShown' = TRUE
  /\ textSent' = <<>>
  /\ imgSent' = 0
  /\ status' = "Image loaded. It will be sent periodically during voice chat."
  /\ staleReads' = staleReads \ {m}
  /\ UNCHANGED <<variant, budget, dashVars, audioHandlers, received, orphans, inputVars, sessVars, flagVars, loopVars, playVars, micVars, nextImg,
                 imageTimer, timerImg, wVars, frameVars, wcVars>>

\* removeImage(): the remove button.
AppRemoveImage ==
  /\ variant = "app" /\ genAI
  /\ currentImage' = 0
  /\ previewShown' = FALSE
  /\ textSent' = <<>>
  /\ imgSent' = 0
  /\ status' = "Image removed. Click \"Talk\" or Upload an Image"
  /\ staleReads' = reading
  /\ UNCHANGED <<variant, budget, dashVars, audioHandlers, received, orphans, inputVars, sessVars, flagVars, loopVars, playVars, micVars, reading,
                 nextImg, imageTimer, timerImg, wVars, frameVars, wcVars>>

\* A plausible slip: sendPeriodicImageData forgets the image once it is sent.
AppImageTickConsumes ==
  /\ variant = "app" /\ genAI
  /\ imageTimer
  /\ textSent' = <<>>
  /\ imgSent' = (IF session # 0 /\ isRecording /\ currentImage # 0
                 THEN currentImage ELSE 0)
  /\ currentImage' = 0
  /\ status' = status
  /\ UNCHANGED <<variant, budget, dashVars, hVars, inputVars, sessVars, flagVars, loopVars, playVars, micVars,
                 previewShown, reading, nextImg, imageTimer, timerImg, wVars, frameVars,
                 wcVars>>

\* One firing of the interval: sendPeriodicImageData().
AppImageTick ==
  /\ variant = "app" /\ genAI
  /\ imageTimer
  /\ textSent' = <<>>
  /\ imgSent' = (IF session # 0 /\ isRecording /\ currentImage # 0
                 THEN currentImage ELSE 0)
  /\ status' = status
  /\ UNCHANGED <<variant, budget, dashVars, hVars, inputVars, sessVars, flagVars, loopVars, playVars, micVars, imgVars,
                 wVars, frameVars, wcVars>>

NextAppCall ==
  \/ AppToggleRecording
  \/ AppInitAudioDone
  \/ \E t \in Texts : AppHandleTextSend(t)
  \/ \E i \in Slots : AppConnectResolve(i)
  \/ \E i \in Slots : AppConnectReject(i)
  \/ \E i \in Slots : AppOnSetupComplete(i)
  \/ \E i \in Slots : AppOnAudio(i)
  \/ \E c \in 1..MaxChunks : AppOnEnded(c)
  \/ \E i \in Slots : AppOnError(i)
  \/ \E i \in Slots : AppOnClose(i)
  \/ AppMicResolve
  \/ AppMicReject

NextAppImage ==
  \/ \E ty \in FileTypes : AppUploadStart(ty)
  \/ \E m \in 1..MaxImg : AppReaderLoad(m)
  \/ AppRemoveImage
  \/ AppImageTick

NextApp == NextAppCall \/ NextAppImage

\* ================================================================= HomePage
\* connectToGemini() up to its await; img is imageBase64 as the closure of the
\* startRecording that calls it captured it.  The held session is not closed.
HomeConnectToGemini(img) ==
  /\ CanConnect(sess)
  /\ sess' = [sess EXCEPT ![NewSlot(sess)] = "pending"]
  /\ caller' = [caller EXCEPT ![NewSlot(sess)] = "rec"]
  /\ cap' = [cap EXCEPT ![NewSlot(sess)] = img, ![0] = 0]

\* stopRecording(): cleanupAudioNodes, stopImageInterval, session.current?.close().
HomeStopRecording ==
  /\ isRecording' = FALSE
  /\ imageTimer' = FALSE
  /\ micStream' = FALSE
  /\ liveMics' = liveMics - (IF micStream THEN 1 ELSE 0)
  /\ sess' = CloseOf(sess, session)
  /\ UNCHANGED <<caller, cap, audioContext, initWaiter>>

\* handleToggle(): the Talk / Stop button.  startRecording runs up to its first
\* external await: initializeAudio when no AudioContext exists, else live.connect.
HomeToggle ==
  /\ variant = "home"
  /\ IF isRecording
     THEN HomeStopRecording
     ELSE /\ isRecording' = TRUE
          /\ IF audioContext = "none"
             THEN /\ audioContext' = "loading"
                  /\ initWaiter' = "toggle"
                  /\ cap' = [cap EXCEPT ![0] = currentImage]
                  /\ UNCHANGED <<sess, caller>>
             ELSE /\ HomeConnectToGemini(currentImage)
                  /\ UNCHANGED <<audioContext, initWaiter>>
          /\ UNCHANGED <<imageTimer, micStream, liveMics>>
  /\ textSent' = <<>>
  /\ imgSent' = 0
  /\ status' = (IF isRecording THEN "Call ended."
               ELSE IF audioContext = "none" THEN status
               ELSE "Connecting to Gemini...")
  /\ UNCHANGED <<variant, budget, dashVars, hVars, inputVars, session, isSetupComplete, provOnly, queueVars, nextChunk,
                 micPending, imgState, timerImg, wVars, frameVars, wcVars>>

\* initializeAudio settles (resume, addModule); startRecording goes on to
\* connectToGemini.
HomeInitAudioDone ==
  /\ variant = "home"
  /\ audioContext = "loading"
  /\ audioContext' = "ready"
  /\ initWaiter' = "none"
  /\ HomeConnectToGemini(cap[0])
  /\ textSent' = <<>>
  /\ imgSent' = 0
  /\ status' = "Connecting to Gemini..."
  /\ UNCHANGED <<variant, budget, dashVars, hVars, inputVars, session, isRecording, isSetupComplete, provOnly, queueVars,
                 nextChunk, micVars, imgVars, wVars, frameVars, wcVars>>

\* live.connect of slot i resolves: session.current = handle; startRecording
\* goes on to getUserMedia.
HomeConnectResolve(i) ==
  /\ variant = "home"
  /\ sess[i] = "pending"
  /\ Len(micPending) < MaxPend
  /\ session' = i
  /\ sess' = Gc([sess EXCEPT ![i] = "open"], i)
  /\ caller' = [caller EXCEPT ![i] = "none"]
  /\ cap' = [cap EXCEPT ![i] = 0]
  /\ micPending' = Append(micPending, cap[i])
  /\ textSent' = <<>>
  /\ imgSent' = 0
  /\ status' = "Requesting microphone..."
  /\ UNCHANGED <<variant, budget, dashVars, hVars, inputVars, isRecording, isSetupComplete, provOnly, playVars, micStream,
                 liveMics, imgVars, wVars, frameVars, wcVars>>

\* live.connect of slot i rejects: the catch branch reports it, and
\* startRecording goes on to getUserMedia all the same.
HomeConnectReject(i) ==
  /\ variant = "home"
  /\ sess[i] = "pending"
  /\ Len(micPending) < MaxPend
  /\ sess' = Gc([sess EXCEPT ![i] = "failed"], session)
  /\ caller' = [caller EXCEPT ![i] = "none"]
  /\ cap' = [cap EXCEPT ![i] = 0]
  /\ micPending' = Append(micPending, cap[i])
  /\ textSent' = <<>>
  /\ imgSent' = 0
  /\ status' = "Requesting microphone..."
  /\ UNCHANGED <<variant, budget, dashVars, hVars, inputVars, session, isRecording, isSetupComplete, provOnly, playVars,
                 micStream, liveMics, imgVars, wVars, frameVars, wcVars>>

\* onmessage with setupComplete from the session of slot i.
HomeOnSetupComplete(i) ==
  /\ variant = "home"
  /\ sess[i] = "open"
  /\ sess' = [sess EXCEPT ![i] = "ready"]
  /\ isSetupComplete' = TRUE
  /\ textSent' = <<>>
  /\ imgSent' = 0
  /\ status' = "Setup complete. Ready!"
  /\ UNCHANGED <<variant, budget, dashVars, hVars, inputVars, caller, cap, session, isRecording, provOnly, playVars, micVars,
                 imgVars, wVars, frameVars, wcVars>>

\* playNext(): q, p and f are the queue, the playing chunks and the playing flag
\* as the caller leaves them.  A suspended AudioContext makes it await resume()
\* before it shifts.
HomePlayNext(q, p, f) ==
  IF q = <<>> \/ audioContext = "none"
  THEN /\ isPlayingAudio' = FALSE
       /\ audioQueue' = q
       /\ playing' = p
       /\ UNCHANGED <<started, pendingPlay>>
  ELSE /\ isPlayingAudio' = f
       /\ \/ /\ pendingPlay' = Head(q)
             /\ audioQueue' = q
             /\ playing' = p
             /\ UNCHANGED started
          \/ /\ audioQueue' = Tail(q)
             /\ started' = Append(started, Head(q))
             /\ playing' = p \cup {Head(q)}
             /\ UNCHANGED pendingPlay

\* enqueueAudio(buf)
HomeEnqueueAudio(c) ==
  IF ~isPlayingAudio
  THEN HomePlayNext(Append(audioQueue, c), playing, TRUE)
  ELSE /\ audioQueue' = Append(audioQueue, c)
       /\ UNCHANGED <<isPlayingAudio, started, playing, pendingPlay>>

\* onmessage with one audio part from the session of slot i.
HomeOnAudio(i) ==
  /\ variant = "home"
  /\ sess[i] = "ready"
  /\ nextChunk <= budget.chunks
  /\ nextChunk' = nextChunk + 1
  /\ HomeEnqueueAudio(nextChunk)
  /\ textSent' = <<>>
  /\ imgSent' = 0
  /\ status' = status
  /\ UNCHANGED <<variant, budget, dashVars, hVars, inputVars, sessVars, flagVars, loopVars, audioContext, initWaiter,
                 micVars, imgVars, wVars, frameVars, wcVars>>

\* ctx.resume() settles in playNext: the head is shifted and started.
HomeResumeDone ==
  /\ variant = "home"
  /\ pendingPlay # 0
  /\ pendingPlay' = 0
  /\ audioQueue' = Tail(audioQueue)
  /\ started' = Append(started, Head(audioQueue))
  /\ playing' = playing \cup {Head(audioQueue)}
  /\ textSent' = <<>>
  /\ imgSent' = 0
  /\ status' = status
  /\ UNCHANGED <<variant, budget, dashVars, hVars, inputVars, sessVars, flagVars, loopVars, audioContext, initWaiter,
                 isPlayingAudio, nextChunk, micVars, imgVars, wVars, frameVars, wcVars>>

\* src.onended of chunk c.
HomeOnEnded(c) ==
  /\ variant = "home"
  /\ c \in playing
  /\ IF audioQueue # <<>>
     THEN HomePlayNext(audioQueue, playing \ {c}, isPlayingAudio)
     ELSE /\ isPlayingAudio' = FALSE
          /\ playing' = playing \ {c}
          /\ UNCHANGED <<audioQueue, started, pendingPlay>>
  /\ textSent' = <<>>
  /\ imgSent' = 0
  /\ status' = status
  /\ UNCHANGED <<variant, budget, dashVars, hVars, inputVars, sessVars, flagVars, loopVars, audioContext, initWaiter,
                 nextChunk, micVars, imgVars, wVars, frameVars, wcVars>>

\* onerror of the session of slot i: the status text only.
HomeOnError(i) ==
  /\ variant = "home"
  /\ sess[i] \in {"open", "ready"}
  /\ sess' = [sess EXCEPT ![i] = "errored"]
  /\ textSent' = <<>>
  /\ imgSent' = 0
  /\ status' = "Error"
  /\ UNCHANGED <<variant, budget, dashVars, hVars, inputVars, caller, cap, session, flagVars, loopVars, playVars, micVars,
                 imgVars, wVars, frameVars, wcVars>>

\* onclose of the session of slot i: the status text only.
HomeOnClose(i) ==
  /\ variant = "home"
  /\ sess[i] \in {"open", "ready", "errored", "closing"}
  /\ sess' = Gc([sess EXCEPT ![i] = "closed"], session)
  /\ textSent' = <<>>
  /\ imgSent' = 0
  /\ status' = "Disconnected."
  /\ UNCHANGED <<variant, budget, dashVars, hVars, inputVars, caller, cap, session, flagVars, loopVars, playVars, micVars,
                 imgVars, wVars, frameVars, wcVars>>

\* getUserMedia resolves in startRecording: the capture chain is attached, then
\* startImageInterval() of the same closure runs and sends once.  While
\* addModule is still loading the processor, new AudioWorkletNode throws after
\* the stream is stored, and nothing catches it.
HomeMicResolve ==
  /\ variant = "home"
  /\ micPending # <<>>
  /\ liveMics < MaxMics
  /\ micPending' = Tail(micPending)
  /\ micStream' = TRUE
  /\ liveMics' = liveMics + 1
  /\ IF audioContext = "loading"
     THEN /\ UNCHANGED <<imageTimer, timerImg>>
          /\ textSent' = <<>>
          /\ imgSent' = 0
     ELSE IF Head(micPending) # 0 /\ session # 0
          THEN /\ imageTimer' = TRUE
               /\ timerImg' = Head(micPending)
               /\ textSent' = <<>>
               /\ imgSent' = Head(micPending)
          ELSE /\ imageTimer' = FALSE
               /\ timerImg' = 0
               /\ textSent' = <<>>
               /\ imgSent' = 0
  /\ status' = (IF audioContext = "loading" THEN status ELSE "Listening...")
  /\ UNCHANGED <<variant, budget, dashVars, hVars, inputVars, sessVars, flagVars, loopVars, playVars, imgState, wVars, frameVars, wcVars>>

\* getUserMedia rejects: startRecording throws, nothing catches it.
HomeMicReject ==
  /\ variant = "home"
  /\ micPending # <<>>
  /\ micPending' = Tail(micPending)
  /\ textSent' = <<>>
  /\ imgSent' = 0
  /\ status' = status
  /\ UNCHANGED <<variant, budget, dashVars, hVars, inputVars, sessVars, flagVars, loopVars, playVars, micStream, liveMics,
                 imgVars, wVars, frameVars, wcVars>>

\* handleImageUpload: a FileReader starts loading.
HomeUploadStart(ty) ==
  /\ variant = "home"
  /\ nextImg <= budget.imgs
  /\ reading' = reading \cup {nextImg}
  /\ nextImg' = nextImg + 1
  /\ imgType' = [imgType EXCEPT ![nextImg] = ty]
  /\ textSent' = <<>>
  /\ imgSent' = 0
  /\ status' = status
  /\ UNCHANGED <<variant, budget, dashVars, hVars, chatFile, chatJob, textInput, sessVars, flagVars, loopVars,
                 playVars, micVars, currentImage, previewShown, imageTimer, timerImg, wVars,
                 frameVars, wcVars>>

\* reader.onload of image m: setImageBase64, setImageMimeType.
HomeReaderLoad(m) ==
  /\ variant = "home"
  /\ m \in reading
  /\ reading' = reading \ {m}
  /\ currentImage' = m
  /\ previewShown' = TRUE
  /\ textSent' = <<>>
  /\ imgSent' = 0
  /\ status' = status
  /\ UNCHANGED <<variant, budget, dashVars, hVars, inputVars, sessVars, flagVars, loopVars, playVars, micVars, nextImg,
                 imageTimer, timerImg, wVars, frameVars, wcVars>>

\* The remove button of the preview: setImageBase64(null).
HomeRemoveImage ==
  /\ variant = "home"
  /\ currentImage # 0
  /\ currentImage' = 0
  /\ previewShown' = FALSE
  /\ textSent' = <<>>
  /\ imgSent' = 0
  /\ status' = status
  /\ UNCHANGED <<variant, budget, dashVars, hVars, inputVars, sessVars, flagVars, loopVars, playVars, micVars, reading,
                 nextImg, imageTimer, timerImg, wVars, frameVars, wcVars>>

\* One firing of the interval: sendImage() of the closure that armed it.
HomeImageTick ==
  /\ variant = "home"
  /\ imageTimer
  /\ textSent' = <<>>
  /\ imgSent' = (IF session # 0 THEN timerImg ELSE 0)
  /\ status' = status
  /\ UNCHANGED <<variant, budget, dashVars, hVars, inputVars, sessVars, flagVars, loopVars, playVars, micVars, imgVars,
                 wVars, frameVars, wcVars>>

NextHomeCall ==
  \/ HomeToggle
  \/ HomeInitAudioDone
  \/ \E i \in Slots : HomeConnectResolve(i)
  \/ \E i \in Slots : HomeConnectReject(i)
  \/ \E i \in Slots : HomeOnSetupComplete(i)
  \/ \E i \in Slots : HomeOnAudio(i)
  \/ HomeResumeDone
  \/ \E c \in 1..MaxChunks : HomeOnEnded(c)
  \/ \E i \in Slots : HomeOnError(i)
  \/ \E i \in Slots : HomeOnClose(i)
  \/ HomeMicResolve
  \/ HomeMicReject

NextHomeImage ==
  \/ \E ty \in FileTypes : HomeUploadStart(ty)
  \/ \E m \in 1..MaxImg : HomeReaderLoad(m)
  \/ HomeRemoveImage
  \/ HomeImageTick

NextHome == NextHomeCall \/ NextHomeImage

\* ============================================================ AvatarDisplay
\* playNext of AvatarDisplay has no await: it runs to completion.
AvatarPlayNext(q, p) ==
  IF q = <<>>
  THEN /\ isPlayingAudio' = FALSE
       /\ audioQueue' = q
       /\ playing' = p
       /\ UNCHANGED started
  ELSE /\ isPlayingAudio' = TRUE
       /\ audioQueue' = Tail(q)
       /\ started' = Append(started, Head(q))
       /\ playing' = p \cup {Head(q)}

\* handleAudio(ab): the handler GeminiProvider calls for each audio part.
AvatarHandleAudio ==
  /\ variant = "avatar"
  /\ nextChunk <= budget.chunks
  /\ nextChunk' = nextChunk + 1
  /\ IF ~isPlayingAudio
     THEN AvatarPlayNext(Append(audioQueue, nextChunk), playing)
     ELSE /\ audioQueue' = Append(audioQueue, nextChunk)
          /\ UNCHANGED <<isPlayingAudio, started, playing>>
  /\ UNCHANGED <<variant, budget, dashVars, hVars, inputVars, sessVars, flagVars, loopVars, audioContext, initWaiter,
                 pendingPlay, micVars, imgVars, imgSent, textSent, status, wVars, frameVars, wcVars>>

\* src.onended of the chunk c.
AvatarOnEnded(c) ==
  /\ variant = "avatar"
  /\ c \in playing
  /\ AvatarPlayNext(audioQueue, playing \ {c})
  /\ UNCHANGED <<variant, budget, dashVars, hVars, inputVars, sessVars, flagVars, loopVars, audioContext, initWaiter,
                 pendingPlay, nextChunk, micVars, imgVars, imgSent, textSent, status, wVars, frameVars, wcVars>>

NextAvatar == AvatarHandleAudio \/ \E c \in 1..MaxChunks : AvatarOnEnded(c)

\* =========================================================== GeminiProvider
\* A plausible slip: connect() without its genAIRef guard.
ProvConnectKeyless(s0, ref, conn, setup0) ==
  IF conn \/ (ref # 0 /\ setup0)
  THEN /\ sess' = s0
       /\ connectingRef' = conn
       /\ loopAwait' = 0
  ELSE /\ CanConnect(CloseOf(s0, ref))
       /\ connectingRef' = TRUE
       /\ sess' = [CloseOf(s0, ref) EXCEPT ![NewSlot(CloseOf(s0, ref))] = "pending"]
       /\ loopAwait' = NewSlot(CloseOf(s0, ref))

\* connect() as a watch loop calls it, up to its await.  s0, ref and conn are the
\* session table, sessionRef.current and connectingRef.current as the caller
\* leaves them; setup0 is isSetupComplete as the closure captured it.
ProvConnect(s0, ref, conn, setup0) ==
  IF conn \/ ~genAI \/ (ref # 0 /\ setup0)
  THEN /\ sess' = s0
       /\ connectingRef' = conn
       /\ loopAwait' = 0
  ELSE /\ CanConnect(CloseOf(s0, ref))
       /\ connectingRef' = TRUE
       /\ sess' = [CloseOf(s0, ref) EXCEPT ![NewSlot(CloseOf(s0, ref))] = "pending"]
       /\ loopAwait' = NewSlot(CloseOf(s0, ref))

\* One iteration of watch(), up to its await; p and ic are paused and
\* isConnected as the effect that started the loop captured them.
ProvWatchIter(s0, ref, conn, p, ic, setup0) ==
  IF ~p /\ ~ic /\ ~conn
  THEN ProvConnect(s0, ref, conn, setup0)
  ELSE /\ sess' = s0
       /\ connectingRef' = conn
       /\ loopAwait' = 0

\* The render that follows a handler.  The effect has [paused, isConnected] as
\* dependencies: when one of them changed it stops the loop and starts a new
\* one, whose first iteration runs at once; otherwise the loop stays as the
\* handler leaves it (la: the slot it awaits) with the closure it has.
ProvAfterRender(s0, ref, conn, p, ic, setupN, la) ==
  IF p # paused \/ ic # isConnected
  THEN /\ loopSetup' = setupN
       /\ ProvWatchIter(s0, ref, conn, p, ic, setupN)
  ELSE /\ sess' = s0
       /\ connectingRef' = conn
       /\ loopAwait' = la
       /\ loopSetup' = loopSetup

\* stopMic()
ProvStopMic ==
  /\ micStream' = FALSE
  /\ liveMics' = liveMics - (IF micStream THEN 1 ELSE 0)

\* The 3 s timer of the watch loop fires: the next iteration.
ProvWatchTick ==
  /\ variant \in ProvHosts
  /\ loopAwait = 0
  /\ ProvWatchIter(sess, session, connectingRef, paused, isConnected, loopSetup)
  /\ UNCHANGED <<variant, budget, dashVars, hVars, inputVars, caller, cap, session, isRecording, isSetupComplete,
                 isConnected, paused, genAI, loopSetup, playVars, micVars, imgVars, imgSent, textSent, status,
                 wVars, frameVars, wcVars>>

\* live.connect of slot i resolves: onopen runs, then sessionRef.current = s.
ProvConnectResolve(i) ==
  /\ variant \in ProvHosts
  /\ sess[i] = "pending"
  /\ isConnected' = TRUE
  /\ session' = i
  /\ ProvAfterRender(Gc([sess EXCEPT ![i] = "open"], i), i, FALSE, paused, TRUE,
                     isSetupComplete, IF loopAwait = i THEN 0 ELSE loopAwait)
  /\ orphans' = orphans \ {i}
  /\ UNCHANGED <<variant, budget, dashVars, audioHandlers, received, staleReads, inputVars, caller, cap, isRecording, isSetupComplete, paused, genAI,
                 playVars, micVars, imgVars, imgSent, textSent, status, wVars, frameVars, wcVars>>

\* live.connect of slot i rejects: the catch branch of connect().
ProvConnectReject(i) ==
  /\ variant \in ProvHosts
  /\ sess[i] = "pending"
  /\ isConnected' = FALSE
  /\ isSetupComplete' = FALSE
  /\ ProvAfterRender(Gc([sess EXCEPT ![i] = "failed"], session), session, FALSE, paused,
                     FALSE, FALSE, IF loopAwait = i THEN 0 ELSE loopAwait)
  /\ orphans' = orphans \ {i}
  /\ UNCHANGED <<variant, budget, dashVars, audioHandlers, received, staleReads, inputVars, caller, cap, session, isRecording, paused, genAI, playVars,
                 micVars, imgVars, imgSent, textSent, status, wVars, frameVars, wcVars>>

\* onmessage with setupComplete from the session of slot i.
ProvOnSetupComplete(i) ==
  /\ variant \in ProvHosts
  /\ sess[i] = "open"
  /\ sess' = [sess EXCEPT ![i] = "ready"]
  /\ isSetupComplete' = TRUE
  /\ UNCHANGED <<variant, budget, dashVars, hVars, inputVars, caller, cap, session, isRecording, isConnected,
                 connectingRef, paused, genAI, loopVars, playVars, micVars, imgVars, imgSent, textSent, status,
                 wVars, frameVars, wcVars>>

\* onerror of the session of slot i.
ProvOnError(i) ==
  /\ variant \in ProvHosts
  /\ sess[i] \in {"open", "ready"}
  /\ isConnected' = FALSE
  /\ ProvAfterRender([sess EXCEPT ![i] = "errored"], session, FALSE, paused, FALSE,
                     isSetupComplete, loopAwait)
  /\ UNCHANGED <<variant, budget, dashVars, hVars, inputVars, caller, cap, session, isRecording, isSetupComplete, paused,
                 genAI, playVars, micVars, imgVars, imgSent, textSent, status, wVars, frameVars, wcVars>>

\* onclose of the session of slot i.
ProvOnClose(i) ==
  /\ variant \in ProvHosts
  /\ sess[i] \in {"open", "ready", "errored", "closing"}
  /\ isConnected' = FALSE
  /\ isSetupComplete' = FALSE
  /\ ProvAfterRender(Gc([sess EXCEPT ![i] = "closed"], session), session, FALSE, paused,
                     FALSE, FALSE, loopAwait)
  /\ UNCHANGED <<variant, budget, dashVars, hVars, inputVars, caller, cap, session, isRecording, paused, genAI, playVars,
                 micVars, imgVars, imgSent, textSent, status, wVars, frameVars, wcVars>>

\* disconnect(): the End button of ChatControls.
ProvDisconnect ==
  /\ variant \in ProvHosts
  /\ session' = 0
  /\ isConnected' = FALSE
  /\ isSetupComplete' = FALSE
  /\ ProvStopMic
  /\ ProvAfterRender(Gc(CloseOf(sess, session), 0), 0, FALSE, paused, FALSE, FALSE,
                     loopAwait)
  /\ orphans' = orphans \cup {i \in Slots : sess[i] = "pending"}
  /\ UNCHANGED <<variant, budget, dashVars, audioHandlers, received, staleReads, inputVars, caller, cap, isRecording, paused, genAI, playVars,
                 micPending, imgVars, imgSent, textSent, status, wVars, frameVars, wcVars>>

\* setPaused(v => !v): the Pause / Resume button of ChatControls.
ProvTogglePause ==
  /\ variant \in ProvHosts
  /\ paused' = ~paused
  /\ ProvAfterRender(sess, session, connectingRef, ~paused, isConnected, isSetupComplete,
                     loopAwait)
  /\ UNCHANGED <<variant, budget, dashVars, hVars, inputVars, caller, cap, session, isRecording, isSetupComplete,
                 isConnected, genAI, playVars, micVars, imgVars, imgSent, textSent, status, wVars, frameVars, wcVars>>

\* toggleMic() of ChatControls, whose micOn is isRecording here; the button is
\* enabled when connected and set up.  startMic() returns at once when paused,
\* else it runs up to its awaits (ensureAudioWorklet, getUserMedia).
ProvToggleMic ==
  /\ variant \in ProvHosts
  /\ isConnected /\ isSetupComplete
  /\ IF isRecording
     THEN /\ ProvStopMic
          /\ isRecording' = FALSE
          /\ UNCHANGED micPending
     ELSE IF paused
          THEN /\ isRecording' = TRUE
               /\ UNCHANGED micVars
          ELSE /\ Len(micPending) < MaxPend
               /\ micPending' = Append(micPending, 0)
               /\ UNCHANGED <<isRecording, micStream, liveMics>>
  /\ UNCHANGED <<variant, budget, dashVars, hVars, inputVars, sessVars, isSetupComplete, isConnected, connectingRef,
                 paused, genAI, loopVars, playVars, imgVars, imgSent, textSent, status, wVars, frameVars, wcVars>>

\* getUserMedia resolves in startMic: the capture chain is attached, then
\* toggleMic sets micOn.
ProvMicResolve ==
  /\ variant \in ProvHosts
  /\ micPending # <<>>
  /\ liveMics < MaxMics
  /\ micPending' = Tail(micPending)
  /\ micStream' = TRUE
  /\ liveMics' = liveMics + 1
  /\ isRecording' = TRUE
  /\ UNCHANGED <<variant, budget, dashVars, hVars, inputVars, sessVars, isSetupComplete, isConnected, connectingRef,
                 paused, genAI, loopVars, playVars, imgVars, imgSent, textSent, status, wVars, frameVars, wcVars>>

\* getUserMedia rejects in startMic: the catch branch logs it, then toggleMic
\* sets micOn.
ProvMicReject ==
  /\ variant \in ProvHosts
  /\ micPending # <<>>
  /\ micPending' = Tail(micPending)
  /\ isRecording' = TRUE
  /\ UNCHANGED <<variant, budget, dashVars, hVars, inputVars, sessVars, isSetupComplete, isConnected, connectingRef,
                 paused, genAI, loopVars, playVars, micStream, liveMics, imgVars, imgSent, textSent, status,
                 wVars, frameVars, wcVars>>

NextProv ==
  \/ ProvWatchTick
  \/ \E i \in Slots : ProvConnectResolve(i)
  \/ \E i \in Slots : ProvConnectReject(i)
  \/ \E i \in Slots : ProvOnSetupComplete(i)
  \/ \E i \in Slots : ProvOnError(i)
  \/ \E i \in Slots : ProvOnClose(i)
  \/ ProvDisconnect
  \/ ProvTogglePause
  \/ ProvToggleMic
  \/ ProvMicResolve
  \/ ProvMicReject

Next == NextApp \/ NextHome \/ NextAvatar \/ NextProv

Spec == Init /\ [][Next]_vars

\* ------------------------------------------------- the playback queues
\* The three playback queues with everything that can touch them: the calls,
\* the sessions and their callbacks, the microphone.  One session at a time, no
\* uploads.
InitPlayback ==
  /\ variant \in {"app", "home", "avatar"}
  /\ budget = [sess |-> (IF variant = "avatar" THEN 0 ELSE 1), chunks |-> MaxChunks,
               imgs |-> 0]
  /\ genAI = TRUE
  /\ Base
  /\ WorkletIdle

NextPlayback == NextAppCall \/ NextHomeCall \/ NextAvatar

SpecPlayback == InitPlayback /\ [][NextPlayback]_vars

\* ------------------------------------------- the provider under fairness
\* The watch loop's timer fires, a live.connect call settles and a socket that
\* errored or is closing reports its close; the user and the service owe
\* nothing else.
InitProv ==
  /\ variant = "prov"
  /\ budget \in Budgets("prov")
  /\ genAI \in BOOLEAN
  /\ Base
  /\ WorkletIdle

ProvSettle == \E i \in Slots : ProvConnectResolve(i) \/ ProvConnectReject(i)

ProvSocketEnds == \E i \in Slots : sess[i] \in {"errored", "closing"} /\ ProvOnClose(i)

SpecProvFair ==
  /\ InitProv
  /\ [][NextProv]_vars
  /\ WF_vars(ProvWatchTick)
  /\ WF_vars(ProvSettle)
  /\ WF_vars(ProvSocketEnds)

\* ------------------------------------------------ the capture processor
\* Native sample rates of the AudioContext the processor runs in.
Rates == {16000, 32000, 44100, 48000, 96000}

\* "interp": the AudioProcessor of GeminiLiveVoiceApp and GeminiProvider;
\* "raw": the AudioProcessor of HomePage.
InitWorklet ==
  /\ variant = "worklet"
  /\ budget = [sess |-> 0, chunks |-> 0, imgs |-> 0]
  /\ genAI = TRUE
  /\ Base
  /\ wKind \in {"interp", "raw"}
  /\ wRate \in Rates
  /\ wIndex = 0 /\ wIn = 0 /\ wOut = 0 /\ wCalls = 0 /\ wDropped = 0

\* _index and bufferSize * resampleRatio are kept as multiples of 1/125 sample:
\* bufferSize * 125 / targetSampleRate is the integer 32, so that
\* bufferSize * resampleRatio * 125 is 32 * sampleRate.
Scale == 125
FlushAt == ((WORKLET_BUFFER_SIZE * Scale) \div TARGET_SAMPLE_RATE) * wRate
BufferLen == WORKLET_BUFFER_SIZE * 4

\* process(i) of the interpolating processor with n input samples (0: no
\* input channel): append when the block fits, then flush() at most once.
\* A block that does not fit is not stored anywhere: wDropped counts its
\* samples.
InterpProcess(n) ==
  LET fits == n > 0 /\ wIndex + n * Scale <= BufferLen * Scale
      idx == IF fits THEN wIndex + n * Scale ELSE wIndex
  IN /\ wIn' = wIn + n
     /\ wDropped' = IF fits THEN wDropped ELSE wDropped + n
     /\ IF idx >= FlushAt
        THEN /\ wOut' = wOut + WORKLET_BUFFER_SIZE
             /\ wIndex' = idx - FlushAt
        ELSE /\ wOut' = wOut
             /\ wIndex' = idx

\* process(inputs) of HomePage's processor: one Int16 per input sample.
RawProcess(n) ==
  /\ wIn' = wIn + n
  /\ wOut' = wOut + n
  /\ wIndex' = wIndex
  /\ wDropped' = wDropped

\* One render quantum.
WorkletProcess(n) ==
  /\ variant = "worklet"
  /\ wCalls < MaxCalls
  /\ wCalls' = wCalls + 1
  /\ IF wKind = "interp" THEN InterpProcess(n) ELSE RawProcess(n)
  /\ UNCHANGED <<variant, budget, dashVars, hVars, inputVars, sessVars, flagVars, loopVars, playVars, micVars, imgVars,
                 imgSent, textSent, status, wKind, wRate, wcVars,
                 frameVars>>

NextWorklet == \E n \in {0, RenderQuantum} : WorkletProcess(n)

SpecWorklet == InitWorklet /\ [][NextWorklet]_vars

\* ------------------------------ the queues while no session fails or ends
\* The interleavings of enqueue calls and end-of-playback events: the App's
\* sessions open and deliver, and none of them errors, closes or is refused.
NextAppQueue ==
  \/ AppToggleRecording
  \/ AppInitAudioDone
  \/ \E t \in Texts : AppHandleTextSend(t)
  \/ \E i \in Slots : AppConnectResolve(i)
  \/ \E i \in Slots : AppOnSetupComplete(i)
  \/ \E i \in Slots : AppOnAudio(i)
  \/ \E c \in 1..MaxChunks : AppOnEnded(c)
  \/ AppMicResolve
  \/ AppMicReject

NextQueue == NextAppQueue \/ NextHomeCall \/ NextAvatar

SpecQueue == InitPlayback /\ [][NextQueue]_vars

\* src.onended of the chunk c, in whichever component plays it.
ChunkEnds(c) == AppOnEnded(c) \/ HomeOnEnded(c) \/ AvatarOnEnded(c)

\* Every started source fires its ended event, and the audio system settles:
\* initializeAudioSystem in GeminiLiveVoiceApp, ctx.resume() in HomePage.
SpecQueueFair ==
  /\ InitPlayback
  /\ [][NextQueue]_vars
  /\ \A c \in 1..MaxChunks : WF_vars(ChunkEnds(c))
  /\ WF_vars(AppInitAudioDone)
  /\ WF_vars(HomeResumeDone)

\* ======================================================= WebcamScreenShare
\* Mounted under GeminiProvider.  A function of the component sees the state
\* of the render that created it: startWebcam / startScreenShare pass their
\* guard only with paused false and isSetupComplete, isConnected true, so
\* of the values sendFrameNow closes over only videoReady differs between
\* closures.  wcPending and wcPlay hold, for each start that awaits
\* getUserMedia / getDisplayMedia or video.play(), its kind and that captured
\* videoReady.
MaxWcPend == 2
MaxWcLive == 2
MaxFrames == 1

WcKinds == {"webcam", "screen"}

InitWebcam ==
  /\ variant = "webcam"
  /\ budget = [sess |-> 1, chunks |-> 0, imgs |-> 0]
  /\ genAI = TRUE
  /\ Base
  /\ WorkletIdle

\* Removes the k-th element of a sequence.
WcWithout(q, k) == SubSeq(q, 1, k - 1) \o SubSeq(q, k + 1, Len(q))

\* A plausible slip: stopAll without its clearInterval.
WcStopAllKeepsTimer ==
  /\ wcTimer' = wcTimer
  /\ wcLive' = wcLive - (IF wcStream THEN 1 ELSE 0)
  /\ wcStream' = FALSE
  /\ wcAttached' = FALSE
  /\ wcMode' = "none"
  /\ wcReady' = FALSE

\* stopAll()
WcStopAll ==
  /\ wcTimer' = "none"
  /\ wcLive' = wcLive - (IF wcStream THEN 1 ELSE 0)
  /\ wcStream' = FALSE
  /\ wcAttached' = FALSE
  /\ wcMode' = "none"
  /\ wcReady' = FALSE

\* sendFrameNow() of a closure that captured videoReady = r, with paused
\* false and isSetupComplete, isConnected true; sendImageFrame then looks at
\* sessionRef.current and at the paused it captured.
WcSendFrameNow(r) ==
  IF r /\ session # 0
  THEN /\ wcSent < MaxFrames
       /\ wcSent' = wcSent + 1
  ELSE wcSent' = wcSent

\* toggleWebcam() / toggleScreen() of the imperative handle, up to the await
\* of startWebcam / startScreenShare.
WcToggle(kind) ==
  /\ variant = "webcam"
  /\ IF wcMode = kind
     THEN /\ WcStopAll
          /\ UNCHANGED wcPending
     ELSE IF paused \/ ~isSetupComplete \/ ~isConnected
          THEN UNCHANGED <<wcMode, wcReady, wcStream, wcLive, wcAttached, wcTimer, wcPending>>
          ELSE /\ Len(wcPending) + Len(wcPlay) < MaxWcPend
               /\ WcStopAll
               /\ wcPending' = Append(wcPending, [kind |-> kind, ready |-> wcReady])
  /\ UNCHANGED <<variant, budget, dashVars, hVars, inputVars, sessVars, flagVars, provOnly, playVars, micVars, imgVars,
                 imgSent, textSent, status, wVars, frameVars, wcWaiting, wcPlay, wcTick, wcSent>>

\* getUserMedia / getDisplayMedia of the k-th waiting start resolves:
\* streamRef.current = s, then attachStream(s) up to its await of v.play().
WcMediaResolve(k) ==
  /\ variant = "webcam"
  /\ k \in 1..Len(wcPending)
  /\ wcLive < MaxWcLive
  /\ wcPending' = WcWithout(wcPending, k)
  /\ wcStream' = TRUE
  /\ wcLive' = wcLive + 1
  /\ wcAttached' = TRUE
  /\ wcPlay' = Append(wcPlay, wcPending[k])
  /\ UNCHANGED <<variant, budget, dashVars, hVars, inputVars, sessVars, flagVars, provOnly, playVars, micVars, imgVars,
                 imgSent, textSent, status, wVars, frameVars, wcMode, wcReady, wcWaiting, wcTimer, wcTick, wcSent>>

\* getUserMedia / getDisplayMedia rejects: the catch branch logs it.
WcMediaReject(k) ==
  /\ variant = "webcam"
  /\ k \in 1..Len(wcPending)
  /\ wcPending' = WcWithout(wcPending, k)
  /\ UNCHANGED <<variant, budget, dashVars, hVars, inputVars, sessVars, flagVars, provOnly, playVars, micVars, imgVars,
                 imgSent, textSent, status, wVars, frameVars, wcMode, wcReady, wcStream, wcLive, wcAttached, wcWaiting,
                 wcPlay, wcTimer, wcTick, wcSent>>

\* v.play() of the k-th attach settles (a rejection is caught): waitReady()
\* sets videoReady at once when the video has data (has: readyState >= 2 and
\* videoWidth > 0) and else polls; then setActiveMode and startPeriodicSend(),
\* which sends one frame and installs the interval, both with the closure of
\* the render that started.
WcPlayDone(k, has) ==
  /\ variant = "webcam"
  /\ k \in 1..Len(wcPlay)
  /\ wcPlay' = WcWithout(wcPlay, k)
  /\ IF has /\ wcAttached
     THEN /\ wcReady' = TRUE
          /\ UNCHANGED wcWaiting
     ELSE /\ wcWaiting' = TRUE
          /\ UNCHANGED wcReady
  /\ wcMode' = wcPlay[k].kind
  /\ WcSendFrameNow(wcPlay[k].ready)
  /\ wcTimer' = IF wcPlay[k].ready THEN "ready" ELSE "stale"
  /\ UNCHANGED <<variant, budget, dashVars, hVars, inputVars, sessVars, flagVars, provOnly, playVars, micVars, imgVars,
                 imgSent, textSent, status, wVars, frameVars, wcStream, wcLive, wcAttached, wcPending, wcTick>>

\* requestAnimationFrame(waitReady) finds the video with data.
WcReadyFrame ==
  /\ variant = "webcam"
  /\ wcWaiting /\ wcAttached
  /\ wcWaiting' = FALSE
  /\ wcReady' = TRUE
  /\ UNCHANGED <<variant, budget, dashVars, hVars, inputVars, sessVars, flagVars, provOnly, playVars, micVars, imgVars,
                 imgSent, textSent, status, wVars, frameVars, wcMode, wcStream, wcLive, wcAttached, wcPending, wcPlay,
                 wcTimer, wcTick, wcSent>>

\* The interval fires: sendFrameNow() of the closure startPeriodicSend
\* installed.  wcTick is the parity of the firings.
WcTimerTick ==
  /\ variant = "webcam"
  /\ wcTimer # "none"
  /\ wcTick' = 1 - wcTick
  /\ WcSendFrameNow(wcTimer = "ready")
  /\ UNCHANGED <<variant, budget, dashVars, hVars, inputVars, sessVars, flagVars, provOnly, playVars, micVars, imgVars,
                 imgSent, textSent, status, wVars, frameVars, wcMode, wcReady, wcStream, wcLive, wcAttached, wcWaiting,
                 wcPending, wcPlay, wcTimer>>

\* track.onended of a shared screen (the browser's "stop sharing"): stopAll.
WcTrackEnded ==
  /\ variant = "webcam"
  /\ wcStream
  /\ wcMode = "screen" \/ \E k \in 1..Len(wcPlay) : wcPlay[k].kind = "screen"
  /\ WcStopAll
  /\ UNCHANGED <<variant, budget, dashVars, hVars, inputVars, sessVars, flagVars, provOnly, playVars, micVars, imgVars,
                 imgSent, textSent, status, wVars, frameVars, wcWaiting, wcPending, wcPlay, wcTick, wcSent>>

\* The session side of the provider: the watch loop, the socket callbacks, End
\* and Pause.
NextProvLink ==
  \/ ProvWatchTick
  \/ \E i \in Slots : ProvConnectResolve(i)
  \/ \E i \in Slots : ProvConnectReject(i)
  \/ \E i \in Slots : ProvOnSetupComplete(i)
  \/ \E i \in Slots : ProvOnError(i)
  \/ \E i \in Slots : ProvOnClose(i)
  \/ ProvDisconnect
  \/ ProvTogglePause

WcSettle ==
  \/ \E k \in 1..MaxWcPend : WcMediaResolve(k)
  \/ \E k \in 1..MaxWcPend, has \in BOOLEAN : WcPlayDone(k, has)
  \/ WcReadyFrame

NextWebcam ==
  \/ NextProvLink
  \/ \E kind \in WcKinds : WcToggle(kind)
  \/ \E k \in 1..MaxWcPend : WcMediaReject(k)
  \/ WcSettle
  \/ WcTimerTick
  \/ WcTrackEnded

\* The interval keeps firing and what the browser owes (the media, the
\* playing video, its first frame) arrives.
SpecWebcam ==
  /\ InitWebcam
  /\ [][NextWebcam]_vars
  /\ WF_vars(WcTimerTick)
  /\ WF_vars(WcSettle)

\* ===================================================== microphone frames
\* The capture chain of GeminiLiveVoiceApp and of GeminiProvider: a processor
\* whose stream is live posts frames, and port.onmessage handles them one task
\* each, in the order they were posted.
MaxPosted == 3

InitCapture ==
  /\ variant \in {"app", "prov"}
  /\ budget = [sess |-> 1, chunks |-> 0, imgs |-> 0]
  /\ genAI = TRUE
  /\ Base
  /\ WorkletIdle

\* flush() posts a frame.
PostFrame ==
  /\ variant \in {"app", "prov"}
  /\ liveMics > 0
  /\ nextFrame <= MaxPosted
  /\ portQueue' = Append(portQueue, nextFrame)
  /\ nextFrame' = nextFrame + 1
  /\ UNCHANGED <<variant, budget, dashVars, hVars, inputVars, sessVars, flagVars, loopVars, playVars, micVars, imgVars,
                 imgSent, textSent, status, wVars, wcVars, audioSent>>

\* A plausible slip: the handler of GeminiLiveVoiceApp drops a frame when
\* more frames are waiting behind it.
AppOnFrameThrottled(f) ==
  IF session # 0 /\ isRecording /\ Len(portQueue) <= 1
  THEN audioSent' = Append(audioSent, f)
  ELSE audioSent' = audioSent

\* port.onmessage of GeminiLiveVoiceApp with the frame f.
AppOnFrame(f) ==
  IF session # 0 /\ isRecording
  THEN audioSent' = Append(audioSent, f)
  ELSE audioSent' = audioSent

\* port.onmessage of GeminiProvider with the frame f.  startMic returns at
\* once when paused, so the paused its handler closes over is false.
ProvOnFrame(f) ==
  LET pausedAtStart == FALSE IN
  IF session # 0 /\ ~pausedAtStart
  THEN audioSent' = Append(audioSent, f)
  ELSE audioSent' = audioSent

\* The message task of the oldest posted frame.
FrameArrives ==
  /\ variant \in {"app", "prov"}
  /\ portQueue # <<>>
  /\ portQueue' = Tail(portQueue)
  /\ IF variant = "app" THEN AppOnFrame(Head(portQueue)) ELSE ProvOnFrame(Head(portQueue))
  /\ UNCHANGED <<variant, budget, dashVars, hVars, inputVars, sessVars, flagVars, loopVars, playVars, micVars, imgVars,
                 imgSent, textSent, status, wVars, wcVars, nextFrame>>

\* GeminiLiveVoiceApp without playback and text.
NextAppCapture ==
  \/ AppToggleRecording
  \/ AppInitAudioDone
  \/ \E i \in Slots : AppConnectResolve(i)
  \/ \E i \in Slots : AppConnectReject(i)
  \/ \E i \in Slots : AppOnSetupComplete(i)
  \/ \E i \in Slots : AppOnError(i)
  \/ \E i \in Slots : AppOnClose(i)
  \/ AppMicResolve
  \/ AppMicReject

NextCapture == NextAppCapture \/ NextProv \/ PostFrame \/ FrameArrives

SpecCapture == InitCapture /\ [][NextCapture]_vars

\* =========================================== GeminiLiveVoiceApp with images
\* One session at a time, one audio part, and uploads.
InitAppImage ==
  /\ variant = "app"
  /\ budget = [sess |-> 1, chunks |-> 1, imgs |-> MaxImg]
  /\ genAI = TRUE
  /\ Base
  /\ WorkletIdle

SpecAppImage == InitAppImage /\ [][NextApp]_vars

\* ========================================================== the API key
\* GeminiProvider and GeminiLiveVoiceApp with and without the API key.
InitKey ==
  /\ variant \in {"prov", "app"}
  /\ budget = [sess |-> 1, chunks |-> 0, imgs |-> 0]
  /\ genAI \in BOOLEAN
  /\ Base
  /\ WorkletIdle

SpecKey == InitKey /\ [][NextProv \/ NextAppCapture]_vars

\* WebcamScreenShare while the session comes up and stays up: the provider
\* connects, is set up, and is paused and resumed.
NextProvUp ==
  \/ ProvWatchTick
  \/ \E i \in Slots : ProvConnectResolve(i)
  \/ \E i \in Slots : ProvOnSetupComplete(i)
  \/ ProvTogglePause

NextWebcamUp ==
  \/ NextProvUp
  \/ \E kind \in WcKinds : WcToggle(kind)
  \/ \E k \in 1..MaxWcPend : WcMediaReject(k)
  \/ WcSettle
  \/ WcTimerTick
  \/ WcTrackEnded

SpecWebcamUp == InitWebcam /\ [][NextWebcamUp]_vars

\* ================================================== images during voice chat
\* GeminiLiveVoiceApp and HomePage with one session and uploads; an armed
\* interval keeps firing.
InitImage ==
  /\ variant \in {"app", "home"}
  /\ budget = [sess |-> 1, chunks |-> 1, imgs |-> MaxImg]
  /\ genAI = TRUE
  /\ Base
  /\ WorkletIdle

SpecImageFair ==
  /\ InitImage
  /\ [][NextApp \/ NextHome]_vars
  /\ WF_vars(AppImageTick)
  /\ WF_vars(HomeImageTick)

\* ================================================================ ChatInput
\* ChatInput under a GeminiProvider with one session.
InitChat ==
  /\ variant = "chat"
  /\ budget = [sess |-> 1, chunks |-> 0, imgs |-> MaxImg]
  /\ genAI = TRUE
  /\ Base
  /\ WorkletIdle

\* The text input and the send button are disabled.
ChatDisabled == paused \/ ~isConnected \/ ~isSetupComplete

\* onChange of the text input: setText.
ChatSetText(t) ==
  /\ variant = "chat"
  /\ ~ChatDisabled
  /\ textInput # t
  /\ textInput' = t
  /\ textSent' = <<>>
  /\ imgSent' = 0
  /\ status' = status
  /\ UNCHANGED <<variant, budget, dashVars, hVars, imgType, chatFile, chatJob, sessVars, flagVars, loopVars,
                 playVars, micVars, imgVars, wVars, frameVars, wcVars>>

\* onFileChange with a file of type ty: setFile, or the alert.
ChatOnFileChange(ty) ==
  /\ variant = "chat"
  /\ IF ty \in AllowedTypes
     THEN /\ nextImg <= budget.imgs
          /\ chatFile' = nextImg
          /\ nextImg' = nextImg + 1
          /\ imgType' = [imgType EXCEPT ![nextImg] = ty]
          /\ status' = status
     ELSE /\ status' = "Only PNG/JPEG/WEBP allowed"
          /\ UNCHANGED <<chatFile, nextImg, imgType>>
  /\ textSent' = <<>>
  /\ imgSent' = 0
  /\ UNCHANGED <<variant, budget, dashVars, hVars, chatJob, textInput, sessVars, flagVars, loopVars, playVars,
                 micVars, currentImage, previewShown, reading, imageTimer, timerImg, wVars,
                 frameVars, wcVars>>

\* What handleSend does once sendTextWithOptionalImage has returned.
ChatClear ==
  /\ textInput' = <<>>
  /\ chatFile' = 0
  /\ chatJob' = NoJob

\* handleSend() up to its first await that waits for something: with nothing
\* to send it returns; sendTextWithOptionalImage throws without a session or
\* when paused; with a file it awaits fileToBase64; without one it calls
\* sendClientContent, whose exception it swallows.
ChatHandleSend ==
  /\ variant = "chat"
  /\ ~ChatDisabled
  /\ chatJob = NoJob
  /\ IF Trim(textInput) = <<>> /\ chatFile = 0
     THEN /\ textSent' = <<>>
          /\ UNCHANGED <<textInput, chatFile, chatJob, status>>
     ELSE IF session = 0 \/ paused
     THEN /\ status' = "Failed to send message"
          /\ textSent' = <<>>
          /\ UNCHANGED <<textInput, chatFile, chatJob>>
     ELSE IF chatFile # 0
     THEN /\ chatJob' = [step |-> "read", file |-> chatFile, text |-> Trim(textInput)]
          /\ textSent' = <<>>
          /\ UNCHANGED <<textInput, chatFile, status>>
     ELSE /\ textSent' = <<Trim(textInput)>>
          /\ ChatClear
          /\ status' = status
  /\ imgSent' = 0
  /\ UNCHANGED <<variant, budget, dashVars, hVars, imgType, sessVars, flagVars, loopVars, playVars, micVars,
                 imgVars, wVars, frameVars, wcVars>>

\* fileToBase64 resolves: sendRealtimeInput with the file, then the 200 ms
\* wait; without a session the TypeError is swallowed and handleSend goes on.
ChatFileRead ==
  /\ variant = "chat"
  /\ chatJob.step = "read"
  /\ IF session # 0
     THEN /\ imgSent' = chatJob.file
          /\ chatJob' = [chatJob EXCEPT !.step = "wait"]
          /\ UNCHANGED <<textInput, chatFile>>
     ELSE /\ imgSent' = 0
          /\ ChatClear
  /\ textSent' = <<>>
  /\ status' = status
  /\ UNCHANGED <<variant, budget, dashVars, hVars, imgType, sessVars, flagVars, loopVars, playVars, micVars,
                 imgVars, wVars, frameVars, wcVars>>

\* fileToBase64 rejects: the error is swallowed and handleSend goes on.
ChatFileFails ==
  /\ variant = "chat"
  /\ chatJob.step = "read"
  /\ ChatClear
  /\ textSent' = <<>>
  /\ imgSent' = 0
  /\ status' = status
  /\ UNCHANGED <<variant, budget, dashVars, hVars, imgType, sessVars, flagVars, loopVars, playVars, micVars,
                 imgVars, wVars, frameVars, wcVars>>

\* The 200 ms timer fires: sendClientContent with the text, then handleSend
\* clears the input and the file.
ChatWaitDone ==
  /\ variant = "chat"
  /\ chatJob.step = "wait"
  /\ textSent' = (IF session # 0 THEN <<chatJob.text>> ELSE <<>>)
  /\ ChatClear
  /\ imgSent' = 0
  /\ status' = status
  /\ UNCHANGED <<variant, budget, dashVars, hVars, imgType, sessVars, flagVars, loopVars, playVars, micVars,
                 imgVars, wVars, frameVars, wcVars>>

NextChatInput ==
  \/ \E t \in Texts : ChatSetText(t)
  \/ \E ty \in FileTypes : ChatOnFileChange(ty)
  \/ ChatHandleSend
  \/ ChatFileRead
  \/ ChatFileFails
  \/ ChatWaitDone

SpecChat == InitChat /\ [][NextProv \/ NextChatInput]_vars

\* ============================================= GeminiLiveVoiceApp with text
\* Talk and Send with one session at a time; the service sends no audio.
InitAppText ==
  /\ variant = "app"
  /\ budget = [sess |-> 1, chunks |-> 0, imgs |-> 0]
  /\ genAI = TRUE
  /\ Base
  /\ WorkletIdle

NextAppText ==
  \/ AppToggleRecording
  \/ AppInitAudioDone
  \/ \E t \in Texts : AppHandleTextSend(t)
  \/ \E i \in Slots : AppConnectResolve(i)
  \/ \E i \in Slots : AppConnectReject(i)
  \/ \E i \in Slots : AppOnSetupComplete(i)
  \/ \E i \in Slots : AppOnError(i)
  \/ \E i \in Slots : AppOnClose(i)
  \/ AppMicResolve
  \/ AppMicReject

SpecAppText == InitAppText /\ [][NextAppText]_vars

\* ============================================ GeminiProvider's audio handlers
\* The elements of a sequence.
Range(q) == {q[k] : k \in 1..Len(q)}

\* A plausible slip: the handlers are kept in an array, and registering pushes.
ProvRegisterPushes(h) ==
  /\ variant = "prov"
  /\ Len(audioHandlers) <= Cardinality(Handlers)
  /\ audioHandlers' = Append(audioHandlers, h)
  /\ UNCHANGED <<variant, budget, dashVars, inputVars, received, orphans, staleReads, sessVars, flagVars, loopVars, playVars,
                 micVars, imgVars, imgSent, textSent, status, wVars, frameVars, wcVars>>

\* registerAudioHandler(h): Set.add keeps one entry per function, in insertion
\* order.
ProvRegisterAudioHandler(h) ==
  /\ variant = "prov"
  /\ audioHandlers' = (IF h \in Range(audioHandlers) THEN audioHandlers
                       ELSE Append(audioHandlers, h))
  /\ UNCHANGED <<variant, budget, dashVars, inputVars, received, orphans, staleReads, sessVars, flagVars, loopVars, playVars,
                 micVars, imgVars, imgSent, textSent, status, wVars, frameVars, wcVars>>

\* The function registerAudioHandler(h) returned is called: Set.delete.
ProvUnregister(h) ==
  /\ variant = "prov"
  /\ audioHandlers' = SelectSeq(audioHandlers, LAMBDA x : x # h)
  /\ UNCHANGED <<variant, budget, dashVars, inputVars, received, orphans, staleReads, sessVars, flagVars, loopVars, playVars,
                 micVars, imgVars, imgSent, textSent, status, wVars, frameVars, wcVars>>

\* What forEach over the handlers q does with the audio part c.
RECURSIVE Dispatch(_, _, _)
Dispatch(q, c, r) ==
  IF q = <<>> THEN r
  ELSE Dispatch(Tail(q), c, [r EXCEPT ![Head(q)] = Append(r[Head(q)], c)])

\* onmessage of the session of slot i with one audio part.
ProvOnAudio(i) ==
  /\ variant = "prov"
  /\ sess[i] \in {"open", "ready"}
  /\ nextChunk <= budget.chunks
  /\ nextChunk' = nextChunk + 1
  /\ received' = Dispatch(audioHandlers, nextChunk, received)
  /\ UNCHANGED <<variant, budget, dashVars, inputVars, audioHandlers, orphans, staleReads, sessVars, flagVars, loopVars,
                 audioContext, initWaiter, pendingPlay, audioQueue, isPlayingAudio, started,
                 playing, micVars, imgVars, imgSent, textSent, status, wVars, frameVars, wcVars>>

InitDispatch ==
  /\ variant = "prov"
  /\ budget = [sess |-> 1, chunks |-> MaxChunks, imgs |-> 0]
  /\ genAI = TRUE
  /\ Base
  /\ WorkletIdle

NextDispatch ==
  \/ NextProvUp
  \/ \E i \in Slots : ProvOnClose(i)
  \/ \E h \in Handlers : ProvRegisterAudioHandler(h)
  \/ \E h \in Handlers : ProvUnregister(h)
  \/ \E i \in Slots : ProvOnAudio(i)

SpecDispatch == InitDispatch /\ [][NextDispatch]_vars

\* ================================================= one press of Talk
\* GeminiLiveVoiceApp when Talk is pressed once: live.connect succeeds, the
\* service answers, the socket may fail, images are uploaded meanwhile, and
\* the permission prompt of getUserMedia is answered.
NextTalkOnce ==
  \/ audioContext = "none" /\ AppToggleRecording
  \/ AppInitAudioDone
  \/ \E i \in Slots : AppConnectResolve(i)
  \/ \E i \in Slots : AppOnSetupComplete(i)
  \/ \E i \in Slots : AppOnAudio(i)
  \/ \E c \in 1..MaxChunks : AppOnEnded(c)
  \/ \E i \in Slots : AppOnError(i)
  \/ \E i \in Slots : AppOnClose(i)
  \/ AppMicResolve
  \/ AppMicReject
  \/ NextAppImage

SpecTalkOnce ==
  /\ InitAppImage
  /\ [][NextTalkOnce]_vars
  /\ WF_vars(AppMicResolve \/ AppMicReject)

\* ===================================================== ElectricityDashboard
\* Math.random() in tenths: its smallest value and one just below 1.
Rand == {0, 9}

Max2(a, b) == IF a >= b THEN a ELSE b
Min2(a, b) == IF a <= b THEN a ELSE b

\* (Math.random() - 0.5) * 0.2 kV, * 20 A, * 5 %, in the units of feeders.
DashVoltStep(r) == (r - 5) * 2
DashCurrentStep(r) == (r - 5) * 2
DashLoadStep(r) == r - 5

\* A plausible slip: the new voltage without its lower clamp.
DashVoltageNoFloor(v, r) == Min2(VoltMax, v + DashVoltStep(r))

\* The new voltage, current and load of an online feeder.
DashVoltage(v, r) ==
  Max2(VoltMin, Min2(VoltMax, v + DashVoltStep(r)))

DashCurrent(c, r) == Max2(0, c + DashCurrentStep(r))
DashLoad(l, r) == Max2(0, Min2(LoadMax, l + DashLoadStep(r)))

\* A plausible slip: the update without its test of the status.
DashUpdateAll(f, r) ==
  [f EXCEPT !.voltage = DashVoltage(f.voltage, r[1]),
            !.current = DashCurrent(f.current, r[2]),
            !.load = DashLoad(f.load, r[3])]

\* What the map of the update effect returns for feeder f; r holds the three
\* Math.random() results an online feeder consumes.
DashUpdate(f, r) ==
  IF f.status = "online"
  THEN [f EXCEPT !.voltage = DashVoltage(f.voltage, r[1]),
                 !.current = DashCurrent(f.current, r[2]),
                 !.load = DashLoad(f.load, r[3])]
  ELSE f

DashOnline == {k \in 1..Len(feeders) : feeders[k].status = "online"}

DashRest ==
  UNCHANGED <<variant, budget, sessVars, flagVars, loopVars, playVars, micVars, imgVars, imgSent,
              textSent, status, wVars, wcVars, frameVars, inputVars, hVars>>

\* The effects run after the first render: the time is set and both intervals
\* are installed.
DashMount ==
  /\ variant = "dash"
  /\ currentTime = 0
  /\ currentTime' = 1
  /\ UNCHANGED <<feeders, dashTicks>>
  /\ DashRest

\* The 1 s interval fires: setCurrentTime(new Date()).
DashClockTick ==
  /\ variant = "dash"
  /\ currentTime # 0
  /\ currentTime' = 3 - currentTime
  /\ UNCHANGED <<feeders, dashTicks>>
  /\ DashRest

\* The 3 s interval fires: setFeeders(prev => prev.map(...)).
DashTick ==
  /\ variant = "dash"
  /\ currentTime # 0
  /\ dashTicks < MaxTicks
  /\ dashTicks' = dashTicks + 1
  /\ \E R \in [DashOnline -> Rand \X Rand \X Rand] :
       feeders' = [k \in 1..Len(feeders) |->
                     DashUpdate(feeders[k], IF k \in DashOnline THEN R[k] ELSE <<5, 5, 5>>)]
  /\ UNCHANGED currentTime
  /\ DashRest

InitDash ==
  /\ variant = "dash"
  /\ budget = [sess |-> 0, chunks |-> 0, imgs |-> 0]
  /\ genAI = TRUE
  /\ Base
  /\ WorkletIdle

NextDash == DashMount \/ DashClockTick \/ DashTick

SpecDash == InitDash /\ [][NextDash]_vars

\* ================================================================ claims
\* Chunk ids are handed out in the order the chunks are enqueued, so "a was
\* enqueued before b" is a < b.

\* C1: in the three playback queues, under every interleaving of enqueue calls
\* and end-of-playback events, chunks start in the order they were enqueued.
PlaysInArrivalOrder ==
  \A i, j \in 1..Len(started) : i < j => started[i] < started[j]

\* C1 witness: every chunk of the run was enqueued and started.
AllChunksStarted == Len(started) = MaxChunks /\ nextChunk = MaxChunks + 1

\* C2: in GeminiLiveVoiceApp, over enqueues, ended events, session
\* onerror/onclose (cleanup) and reconnects, two started sources are never both
\* un-ended.
OneChunkAtATime == variant = "app" => Cardinality(playing) <= 1

\* C3: an enqueue while the playing flag is true appends the chunk to the tail
\* of the queue and does nothing else: no dequeue, no source started, the flag
\* unchanged.
EnqueueWhilePlayingOnlyAppends ==
  [][(nextChunk' # nextChunk /\ isPlayingAudio)
       => /\ audioQueue' = Append(audioQueue, nextChunk)
          /\ UNCHANGED <<isPlayingAudio, started, playing, pendingPlay>>]_vars

\* C3 witness: a chunk is playing and another one, enqueued meanwhile, waits.
EnqueuedWhilePlaying ==
  /\ isPlayingAudio
  /\ playing # {}
  /\ pendingPlay = 0
  /\ audioQueue # <<>>

\* C4: at most one session that live.connect is creating or has returned has
\* not had close() called on it.
AtMostOneActiveSession == Cardinality({i \in Slots : Active(i)}) <= 1

\* C5: in GeminiProvider two live.connect invocations are never outstanding at
\* the same time.
SingleConnectInFlight ==
  variant = "prov" => Cardinality({i \in Slots : sess[i] = "pending"}) <= 1

\* C6: in GeminiProvider, whenever the API client exists and the provider is not
\* paused, not connected and not connecting, the watch loop eventually starts a
\* connection attempt (or the provider stops being in that condition).
ReconnectsEventually ==
  (genAI /\ ~paused /\ ~isConnected /\ ~connectingRef /\ CanConnect(sess))
    ~> (connectingRef \/ paused \/ isConnected)

\* C7: in every variant, a step in which a session's onerror or onclose runs
\* leaves the microphone stopped and released, the image timer cleared, and
\* connected, setup-complete and recording all false.
TornDownOnErrorOrClose ==
  [][(\E i \in Slots :
        /\ sess[i] \in {"open", "ready", "errored", "closing"}
        /\ sess'[i] # sess[i]
        /\ sess'[i] \in {"errored", "closed", "none"})
       => /\ ~micStream' /\ liveMics' = 0
          /\ ~imageTimer'
          /\ ~isConnected' /\ ~isSetupComplete' /\ ~isRecording']_vars

\* C8: in every reachable state of GeminiProvider, isSetupComplete implies
\* isConnected, and connectingRef implies not isConnected.
FlagsFollowStateMachine ==
  variant = "prov" => /\ isSetupComplete => isConnected
                      /\ connectingRef => ~isConnected

\* C9: while no image is held (after a removal, until the next upload has
\* loaded) the preview is hidden and no send carries an image.
RemovedImageIsNeverSent ==
  currentImage = 0 => ~previewShown /\ imgSent = 0

\* C10: the capture processor has emitted floor(N * T / R) samples after N
\* input samples at native rate R, with T the target rate.
EmitsFloorOfRatio == wOut = (wIn * TARGET_SAMPLE_RATE) \div wRate
\* C11: the interpolating capture processor never discards input: every
\* sample handed to process() was stored in the buffer.
NeverDiscardsInput == wKind = "interp" => wDropped = 0

\* C12: the interpolating capture processor can always emit a further frame:
\* either the next render quantum still fits in the buffer or the flush
\* threshold is already reached.
CanAlwaysEmitAgain ==
  wKind = "interp" =>
    \/ wIndex + RenderQuantum * Scale <= BufferLen * Scale
    \/ wIndex >= FlushAt

\* The sample rate of the samples a processor posts: the interpolating one
\* resamples to the target rate, HomePage's one posts its input as it is.
EmittedRate == IF wKind = "raw" THEN wRate ELSE TARGET_SAMPLE_RATE

\* pcm[i] = Math.max(-1, Math.min(1, x)) * 32767 stored in an Int16Array, x
\* given in thousandths: clamp, scale, truncate toward zero.
Pcm16(m) ==
  LET c == IF m < -1000 THEN -1000 ELSE IF m > 1000 THEN 1000 ELSE m
      a == IF c < 0 THEN -c ELSE c
      q == (a * 32767) \div 1000
  IN IF c < 0 THEN -q ELSE q

SampleInputs == {-2000, -1000, -999, -1, 0, 1, 500, 999, 1000, 1001, 2000}

\* C13: every chunk posted to the sender holds exactly WORKLET_BUFFER_SIZE
\* samples, at the target rate its MIME type declares, each in
\* -32767..32767.
ChunksAreFixedSizeAtTargetRate ==
  [][wOut' # wOut =>
       /\ wOut' - wOut = WORKLET_BUFFER_SIZE
       /\ EmittedRate = TARGET_SAMPLE_RATE
       /\ \A m \in SampleInputs : Pcm16(m) \in -32767..32767]_vars

\* Frames are due: a source is active with its video ready, the session is
\* connected and set up, nothing is paused and the interval is installed.
WcFramesDue ==
  /\ variant = "webcam"
  /\ wcMode # "none" /\ wcReady /\ wcTimer # "none"
  /\ session # 0 /\ isConnected /\ isSetupComplete /\ ~paused

\* C14: once frames are due in WebcamScreenShare, a frame is forwarded
\* through sendImageFrame unless the source, the session or the pause state
\* changes first.
FramesDueLeadToFrame == WcFramesDue ~> (~WcFramesDue \/ wcSent > 0)

\* C15: when getUserMedia rejects during startRecording (GeminiLiveVoiceApp,
\* HomePage), the status becomes the error message, the recording flag is
\* false again and no microphone request is left or made.
MicFailureIsSurfaced ==
  [][(AppMicReject \/ HomeMicReject) =>
       /\ status' = "Mic error"
       /\ ~isRecording'
       /\ micPending' = <<>>]_vars

\* C16: when live.connect rejects, the flags are false afterwards, the
\* provider's in-flight guard is false unless the watch loop has already
\* started the next attempt, and GeminiLiveVoiceApp shows "Connection
\* failed.".
ConnectFailureIsReported ==
  [][/\ (\E i \in Slots : AppConnectReject(i)) =>
          /\ ~isSetupComplete'
          /\ status' = "Connection failed."
     /\ (\E i \in Slots : ProvConnectReject(i)) =>
          /\ ~isConnected' /\ ~isSetupComplete'
          /\ connectingRef' => (loopAwait' # 0 /\ sess'[loopAwait'] = "pending")]_vars

\* Capture is enabled: isRecording in GeminiLiveVoiceApp, not paused in
\* GeminiProvider.
CaptureEnabled == IF variant = "app" THEN isRecording ELSE ~paused

UploadedImagePersists ==
  [][currentImage' # currentImage =>
       (AppRemoveImage \/ \E m \in 1..MaxImg : AppReaderLoad(m))]_vars

\* C18 witness: an image is held after a session closed and cleanup() ran.
ImageHeldAfterCleanup == currentImage # 0 /\ status = "Disconnected."

\* C19: without the API key live.connect is never invoked: no session is
\* ever created or held, and the connected, setup-complete and in-flight
\* flags stay false.
NoKeyNoConnection ==
  ~genAI =>
    /\ \A i \in Slots : sess[i] = "none"
    /\ session = 0 /\ loopAwait = 0
    /\ ~isConnected /\ ~isSetupComplete /\ ~connectingRef

\* C19 witness: the key is absent and the provider has been paused, so that
\* resuming makes the watch loop call connect() again.
NoKeyAndPaused == ~genAI /\ variant = "prov" /\ paused

\* The chunk c was handed to enqueueAudio / handleAudio.
Enqueued(c) == c < nextChunk

\* The chunk c was started on the audio output.
Started(c) == \E k \in 1..Len(started) : started[k] = c

\* C20: with nothing queued, awaited or playing the playing flag is false;
\* an enqueue that finds the flag false starts that chunk, at once or after
\* the awaited audio set-up; and every enqueued chunk is eventually started.
EveryChunkIsEventuallyPlayed ==
  /\ []((audioQueue = <<>> /\ playing = {} /\ pendingPlay = 0) => ~isPlayingAudio)
  /\ [][(nextChunk' = nextChunk + 1 /\ ~isPlayingAudio) =>
          (nextChunk \in playing' \/ pendingPlay' = nextChunk)]_vars
  /\ \A c \in 1..MaxChunks : Enqueued(c) ~> Started(c)

\* C20 witness: every chunk of the run was enqueued and played, and the
\* queue idles.
AllPlayedAndIdle ==
  /\ nextChunk = MaxChunks + 1 /\ \A c \in 1..MaxChunks : Started(c)
  /\ audioQueue = <<>> /\ playing = {} /\ ~isPlayingAudio

\* A step that runs stopAll: a toggle of the active source, a start that
\* passes its guard, or the end of the shared screen's track.
WcStopAllRuns ==
  \/ \E kind \in WcKinds :
       /\ WcToggle(kind)
       /\ wcMode = kind \/ ~(paused \/ ~isSetupComplete \/ ~isConnected)
  \/ WcTrackEnded

\* C21: whatever the state stopAll is called in, right after it the interval
\* is cleared, the held stream is stopped and no longer held, activeMode is
\* "none" and videoReady is false.
StopAllTearsEverythingDown ==
  [][WcStopAllRuns =>
       /\ wcTimer' = "none"
       /\ ~wcStream' /\ wcLive' = wcLive - (IF wcStream THEN 1 ELSE 0)
       /\ wcMode' = "none" /\ ~wcReady']_vars

\* C21 witness: the interval has fired and stopAll then ran: nothing is
\* active any more.
StoppedAfterTicking ==
  /\ variant = "webcam" /\ wcTick = 1
  /\ wcTimer = "none" /\ wcMode = "none" /\ ~wcStream /\ wcPending = <<>> /\ wcPlay = <<>>

\* Nothing is awaited in GeminiLiveVoiceApp: no live.connect, no
\* getUserMedia, no audio set-up, no onclose of a socket that is closing.
AppQuiescent ==
  /\ micPending = <<>>
  /\ \A i \in Slots : sess[i] \notin {"pending", "closing", "errored"}
  /\ audioContext # "loading"

\* C22: in GeminiLiveVoiceApp, in every quiescent state in which isRecording
\* is false, no acquired microphone stream is still live.
StoppedRecordingReleasesMic ==
  (variant = "app" /\ AppQuiescent /\ ~isRecording) => liveMics = 0

\* C23: in GeminiLiveVoiceApp, a sendRealtimeInput carrying the uploaded image
\* happens only with isRecording true and a session handle, and the periodic
\* image timer is armed only while isRecording is true.
ImageOnlyDuringVoiceChat ==
  variant = "app" => /\ imgSent # 0 => isRecording /\ session # 0
                     /\ imageTimer => isRecording


\* Voice chat is going on: recording is active, the microphone is captured (no
\* getUserMedia is outstanding) and a
\* set-up session with an open socket is held (HomePage has no set-up flag).
VoiceChatOngoing ==
  /\ isRecording /\ micStream /\ micPending = <<>>
  /\ session # 0 /\ sess[session] \in {"open", "ready"}
  /\ variant = "app" => isSetupComplete

\* C24: an image held while voice chat is going on is sent by a periodic tick,
\* unless it is removed or replaced or recording stops first.
LoadedImageIsSentPeriodically ==
  \A m \in 1..MaxImg :
    (variant \in {"app", "home"} /\ VoiceChatOngoing /\ currentImage = m)
      ~> (imgSent = m \/ currentImage # m \/ ~isRecording)

\* currentImageMimeType / imageMimeType: written together with the image.
currentImageMimeType == IF currentImage = 0 THEN "none" ELSE imgType[currentImage]

\* C25: a file whose type is not image/jpeg, image/png or image/webp never
\* becomes the held image, the payload of a send or the attachment of ChatInput;
\* an upload of such a file leaves GeminiLiveVoiceApp without an image, and
\* selecting one leaves the attached file of ChatInput as it was.
InvalidTypeIsNeverUsed ==
  [][/\ currentImageMimeType' \in AllowedTypes \cup {"none"}
     /\ imgSent' # 0 => imgType'[imgSent'] \in AllowedTypes
     /\ chatFile' # 0 => imgType'[chatFile'] \in AllowedTypes
     /\ (\E ty \in FileTypes \ AllowedTypes : AppUploadStart(ty))
          => currentImage' = 0 /\ ~previewShown'
     /\ (\E ty \in FileTypes \ AllowedTypes : ChatOnFileChange(ty))
          => chatFile' = chatFile]_vars

\* The connectToGemini() that handleTextSend awaited ends and the connection is
\* not set up.
TextSendFindsNoSetup ==
  \E i \in Slots :
    /\ caller[i] = "text"
    /\ \/ AppConnectResolve(i) /\ ~isSetupComplete
       \/ AppConnectReject(i)

\* C26: in GeminiLiveVoiceApp a text is passed to sendClientContent only with
\* a session handle and isSetupComplete, and never a blank one; when the
\* awaited connection is not set up the status is "Not connected yet.",
\* nothing is sent and the text input keeps its content.
TextIsSentOnlyWhenSetUp ==
  [][variant = "app" =>
       /\ textSent' # <<>> =>
            /\ session' # 0 /\ isSetupComplete'
            /\ \E k \in 1..Len(textSent'[1]) : textSent'[1][k] # " "
       /\ TextSendFindsNoSetup =>
            /\ status' = "Not connected yet."
            /\ textSent' = <<>>
            /\ textInput' = textInput]_vars

\* A typed message is still in the input after "Not connected yet.".
TextKeptWhenNotConnected ==
  /\ variant = "app" /\ status = "Not connected yet."
  /\ textSent = <<>> /\ Trim(textInput) = Message

\* C27: each audio part that arrives is passed exactly once, in arrival order,
\* to every handler registered at that time and to no other; a handler that
\* has just been unregistered is not registered, and registering a handler
\* again does not make it receive a part twice.
EachHandlerGetsEachPartOnce ==
  [][variant = "prov" =>
       /\ \A h \in Handlers :
            received'[h] = (IF nextChunk' # nextChunk /\ h \in Range(audioHandlers)
                            THEN Append(received[h], nextChunk) ELSE received[h])
       /\ \A h \in Handlers : ProvUnregister(h) => h \notin Range(audioHandlers')]_vars

\* A handler registered throughout has all the parts, one that was
\* unregistered after the first part has only that one.
PartsDispatchedAfterUnregister ==
  /\ variant = "prov" /\ nextChunk = MaxChunks + 1
  /\ received["h1"] = [k \in 1..MaxChunks |-> k]
  /\ received["h2"] = <<1>>

\* C28: in GeminiLiveVoiceApp, once setupComplete has arrived while isRecording
\* is true, capture becomes active with exactly one microphone stream, unless
\* recording ends first (the socket fails or the microphone is refused).
RecordingStartsOnceSetUp ==
  (variant = "app" /\ isRecording /\ isSetupComplete)
    ~> (~isRecording \/ (micStream /\ liveMics = 1 /\ micPending = <<>>))

\* Capture is active after one press of Talk.
CapturingAfterOnePress ==
  /\ variant = "app" /\ isRecording /\ isSetupComplete
  /\ micStream /\ liveMics = 1 /\ micPending = <<>> /\ status = "Listening..."

\* onclose or onerror of the session of slot i fires after close() was called
\* on it and while a newer attempt is pending or up.
LateCallbackOf(i) ==
  /\ sess[i] = "closing"
  /\ \E j \in Slots \ {i} : Active(j)
  /\ AppOnClose(i) \/ AppOnError(i) \/ ProvOnClose(i) \/ ProvOnError(i)

\* C29: a late onclose/onerror of a superseded session leaves the in-flight
\* guard, the connected and setup-complete flags, the recording flag and the
\* queued audio as they are.
SupersededSessionIsInert ==
  [][(\E i \in Slots : LateCallbackOf(i)) =>
       /\ connectingRef' = connectingRef
       /\ isConnected' = isConnected
       /\ isSetupComplete' = isSetupComplete
       /\ isRecording' = isRecording
       /\ audioQueue' = audioQueue]_vars

\* C30: a live.connect that was pending when disconnect() ran never installs
\* its session: when it resolves, sessionRef and isConnected stay as
\* disconnect() left them and no open session is held for it.
DisconnectWinsOverPendingConnect ==
  [][\A i \in orphans :
       ProvConnectResolve(i) =>
         /\ session' = session
         /\ isConnected' = isConnected
         /\ sess'[i] \notin {"open", "ready"}]_vars

\* C31: while GeminiProvider stays paused no microphone frame and no webcam or
\* screen frame is passed to sendRealtimeInput, and no live.connect is started.
NothingIsSentWhilePaused ==
  [][(variant \in ProvHosts /\ paused /\ paused') =>
       /\ audioSent' = audioSent
       /\ wcSent' = wcSent
       /\ \A i \in Slots : sess'[i] = "pending" => sess[i] = "pending"]_vars

\* C32: in GeminiLiveVoiceApp the completion of a FileReader that was loading
\* when removeImage() ran does not set the image or show the preview.
RemoveImageIsFinal ==
  [][\A m \in staleReads :
       AppReaderLoad(m) => currentImage' = currentImage /\ previewShown' = previewShown]_vars
\* C33: in WebcamScreenShare every acquired stream other than the one held in
\* streamRef has been stopped, so at most one captured stream is live; and with
\* activeMode "none" and no start in flight no stream is live.
WcQuiescent == wcPending = <<>> /\ wcPlay = <<>>

AtMostOneLiveVideoStream ==
  variant = "webcam" =>
    /\ wcLive = (IF wcStream THEN 1 ELSE 0)
    /\ (WcQuiescent /\ wcMode = "none") => wcLive = 0

\* C34: connect() of GeminiProvider and connectToGeminiIfNeeded() of
\* GeminiLiveVoiceApp return true early, starting no live.connect and closing
\* nothing, exactly when the session handle they hold is of a session that is
\* open with its setup complete; never for one that has errored or closed.
SessionIsSetUp == session # 0 /\ sess[session] = "ready"

\* The next iteration of the watch loop reaches connect() and passes its first
\* two guards; the early return leaves every variable as it is.
ProvConnectIsCalled ==
  variant \in ProvHosts /\ ~paused /\ ~isConnected /\ ~connectingRef /\ genAI

ProvReturnsEarly == ProvConnectIsCalled /\ session # 0 /\ loopSetup

AppReturnsEarly == variant = "app" /\ session # 0 /\ isSetupComplete

EarlyReturnOnlyWhenSetUp ==
  /\ (ProvConnectIsCalled /\ loopAwait = 0) => (ProvReturnsEarly <=> SessionIsSetUp)
  /\ (variant = "app" /\ genAI) => (AppReturnsEarly <=> SessionIsSetUp)

\* C35: a step of ChatInput.handleSend clears the typed text and the attached
\* file only when it has handed the message to the session
\* (sendClientContent was called with it); otherwise both are kept and the
\* alert "Failed to send message" is shown.
ChatSendStep == ChatHandleSend \/ ChatFileRead \/ ChatFileFails \/ ChatWaitDone

ChatHasInput == Trim(textInput) # <<>> \/ chatFile # 0

InputClearedOnlyWhenSent ==
  [][(ChatSendStep /\ ChatHasInput /\ chatJob' = NoJob) =>
       IF textSent' # <<>>
       THEN textInput' = <<>> /\ chatFile' = 0
       ELSE /\ textInput' = textInput
            /\ chatFile' = chatFile
            /\ status' = "Failed to send message"]_vars

\* C36: in ElectricityDashboard every online feeder has, after any number of
\* update ticks, a voltage from 10.5 to 11.5 kV, a load from 0 to 100 % and a
\* current that is not negative.
OnlineMetricsStayInRange ==
  variant = "dash" =>
    \A k \in DashOnline :
      /\ feeders[k].voltage >= VoltMin /\ feeders[k].voltage <= VoltMax
      /\ feeders[k].load >= 0 /\ feeders[k].load <= LoadMax
      /\ feeders[k].current >= 0

\* An update has clamped: an online feeder that was at a bound is at it again.
OnlineMetricClamped ==
  /\ variant = "dash" /\ dashTicks > 0
  /\ \E k \in DashOnline :
       \/ feeders[k].voltage = VoltMin /\ feeders[k].load = 0 /\ feeders[k].current = 0
       \/ feeders[k].voltage = VoltMax /\ feeders[k].load = LoadMax

\* C37: an update tick of ElectricityDashboard changes only the voltage, the
\* current and the load of online feeders: every other feeder keeps all its
\* values, and the number of feeders, their order and every other field of
\* every feeder stay as they are.
DashOtherFields(f) == [f EXCEPT !.voltage = 0, !.current = 0, !.load = 0]

TickChangesOnlyOnlineMetrics ==
  [][/\ Len(feeders') = Len(feeders)
     /\ \A k \in 1..Len(feeders) :
          /\ DashOtherFields(feeders'[k]) = DashOtherFields(feeders[k])
          /\ feeders[k].status # "online" => feeders'[k] = feeders[k]]_vars

\* A tick has changed an online feeder next to feeders that are not online.
TickChangedOnlineFeeder ==
  /\ variant = "dash" /\ dashTicks > 0
  /\ \E k \in DashOnline : feeders[k] \notin {s[k] : s \in DashStarts}
  /\ \E k \in 1..Len(feeders) : feeders[k].status = "alarm"
  /\ \E k \in 1..Len(feeders) : feeders[k].status = "maintenance"

=============================================================================
